---------------------------- MODULE Spec2Model ----------------------------
(***************************************************************************)
(* A model of the astropylibrarian HTML reducers.                          *)
(*                                                                         *)
(* Text (str) is a sequence of tokens; a token is a character or a run of   *)
(* characters that the code never looks inside.  "NL" is a line break,      *)
(* "BS" a backslash, "PILCROW" the paragraph sign of Sphinx headings.       *)
(*                                                                         *)
(* A parsed page is a sequence of element records numbered in document      *)
(* order (pre-order); element 0 is the ".card" wrapper.                     *)
(***************************************************************************)
EXTENDS Integers, Sequences, FiniteSets, TLC

VARIABLES
    mode,             \* which entry point this behaviour runs
    pc,               \* position in the entry point's code
    err,              \* the exception that ended the run, or "none"
    doc,              \* sphinx: the parsed page (lxml tree)
    stack,            \* sphinx: the live iter_sphinx_sections generator frames
    yielded,          \* sphinx: every Section yielded, with the invocation and container
    sections,         \* sphinx: ReducedTutorial._sections
    summary,          \* sphinx: ReducedTutorial._summary
    h1_heading,       \* sphinx: process_html's h1_heading
    sibs,             \* sphinx: siblings of the root left to visit
    tutorial_meta,    \* sphinx: ReducedTutorial._h1, _authors, _keywords, _images
    root_element,     \* flat: the cells of the notebook page
    callbacks,        \* flat: whether header_callback / content_callback are given
    pos,              \* flat: the next content element of the walk
    current_section,  \* flat, section: the accumulator / the receiver of new_section
    out,              \* flat: the Sections yielded so far
    args,             \* section: the arguments of the new_section call
    derived,          \* section: what new_section returned
    meta_content,     \* redirect: the content attribute of the meta tag
    source_url,       \* redirect: the URL of the page
    redirect_url,     \* redirect: what parse_redirect_url returned
    html_page,        \* detect: the page handed to detect_redirect (url, meta elements)
    meta_pos,         \* detect: the next meta element of the loop
    detected,         \* detect: what detect_redirect returned
    in_sections,      \* record: the sections handed to from_section
    records,          \* record: the records made so far
    algolia_index,    \* expire: the index client and the objects it holds
    expire_args,      \* expire: root_url and index_epoch of the call
    hits,             \* expire: the objects browse_objects_async has still to yield
    old_object_ids,   \* expire: the objectIDs collected for deletion
    site,             \* fanout: the pages of the site (what indexing each one meets)
    tasks,            \* fanout: the state of each page's task
    keyword_call,     \* keywords: the group and the input keywords of the call
    input_keywords,   \* keywords: the local input_keywords (normalised)
    kw_pos,           \* keywords: the next input keyword of the loop
    output_keywords,  \* keywords: the local output_keywords
    book_page,        \* jbpage: the parsed page of a JupyterBookPage
    accessed,         \* jbpage: what each accessor returned, once read
    fetches,          \* homepage: the downloads made so far (url, whether it succeeded)
    homepage,         \* homepage: what download_homepage returned
    capped_call,      \* capped: the record and max_size of the export call
    capped_out        \* capped: the objects export_capped_records_to_algolia yielded

sphinxVars == <<doc, stack, yielded, sections, summary, h1_heading, sibs, tutorial_meta>>

flatVars == <<root_element, callbacks, pos, current_section, out, args, derived>>

redirectVars == <<meta_content, source_url, redirect_url>>

detectVars == <<html_page, meta_pos, detected>>

recordVars == <<in_sections, records>>

expireVars == <<algolia_index, expire_args, hits, old_object_ids>>

fanoutVars == <<site, tasks>>

keywordVars == <<keyword_call, input_keywords, kw_pos, output_keywords>>

jbpageVars == <<book_page, accessed>>

homepageVars == <<fetches, homepage>>

cappedVars == <<capped_call, capped_out>>

workflowVars ==
    <<detectVars, recordVars, expireVars, fanoutVars, keywordVars, jbpageVars, homepageVars, cappedVars>>

vars == <<mode, pc, err, sphinxVars, flatVars, redirectVars, workflowVars>>

-----------------------------------------------------------------------------
(* Bounds *)

MaxNodes == 5

MaxElems == 4

MaxPath == 6

-----------------------------------------------------------------------------
(* Text helpers *)

Last(s) == s[Len(s)]

Front(s) == SubSeq(s, 1, Len(s) - 1)

RECURSIVE Concat(_)
Concat(ss) == IF ss = <<>> THEN <<>> ELSE Head(ss) \o Concat(Tail(ss))

\* sep.join(parts)
RECURSIVE Join(_, _)
Join(sep, parts) ==
    IF parts = <<>> THEN <<>>
    ELSE IF Len(parts) = 1 THEN Head(parts)
    ELSE Head(parts) \o sep \o Join(sep, Tail(parts))

UpperToLower ==
    ("A" :> "a") @@ ("B" :> "b") @@ ("C" :> "c") @@ ("D" :> "d") @@ ("E" :> "e") @@
    ("F" :> "f") @@ ("G" :> "g") @@ ("H" :> "h") @@ ("I" :> "i") @@ ("J" :> "j") @@
    ("K" :> "k") @@ ("L" :> "l") @@ ("M" :> "m") @@ ("N" :> "n") @@ ("O" :> "o") @@
    ("P" :> "p") @@ ("Q" :> "q") @@ ("R" :> "r") @@ ("S" :> "s") @@ ("T" :> "t") @@
    ("U" :> "u") @@ ("V" :> "v") @@ ("W" :> "w") @@ ("X" :> "x") @@ ("Y" :> "y") @@
    ("Z" :> "z")

\* str.lower()
Lower(s) ==
    [i \in 1..Len(s) |-> IF s[i] \in DOMAIN UpperToLower THEN UpperToLower[s[i]] ELSE s[i]]

\* str.rstrip(chars)
RECURSIVE RStrip(_, _)
RStrip(s, chars) ==
    IF s # <<>> /\ Last(s) \in chars THEN RStrip(Front(s), chars) ELSE s

RECURSIVE LStrip(_, _)
LStrip(s, chars) ==
    IF s # <<>> /\ Head(s) \in chars THEN LStrip(Tail(s), chars) ELSE s

Whitespace == {" ", "NL", "TAB"}

\* str.strip()
Strip(s) == LStrip(RStrip(s, Whitespace), Whitespace)

\* str.replace(old, new), scanning left to right
RECURSIVE Replace(_, _, _)
Replace(s, old, new) ==
    IF Len(s) < Len(old) THEN s
    ELSE IF SubSeq(s, 1, Len(old)) = old
         THEN new \o Replace(SubSeq(s, Len(old) + 1, Len(s)), old, new)
         ELSE <<Head(s)>> \o Replace(Tail(s), old, new)

\* reducers/tutorial.py clean_content
clean_content(x) ==
    LET x1 == Strip(x)
        x2 == Replace(x1, <<"BS", "n">>, <<" ">>)
        x3 == Replace(x2, <<"NL">>, <<" ">>)
    IN  Replace(x3, <<"BS">>, <<" ">>)

IsPrefix(a, b) == Len(a) <= Len(b) /\ SubSeq(b, 1, Len(a)) = a

\* header_callback=lambda x: x.rstrip(PILCROW)
header_callback(x) == RStrip(x, {"PILCROW"})

-----------------------------------------------------------------------------
(* The parsed page *)

\* reducers/utils.py _HEADING_TAGS
HEADING_TAGS == {"h1", "h2", "h3", "h4", "h5", "h6"}

\* ReducedTutorial.ignored_headings
ignored_headings ==
    { <<"a","u","t","h","o","r","s">>,
      <<"k","e","y","w","o","r","d","s">>,
      <<"s","u","m","m","a","r","y">> }

\* Heading texts that name page metadata, as pages write them.
MetaTexts ==
    { <<"S","u","m","m","a","r","y","PILCROW">>,
      <<"s","u","m","m","a","r","y">>,
      <<"K","E","Y","W","O","R","D","S","PILCROW">>,
      <<"A","u","t","h","o","r","s","PILCROW">> }

NodeName ==
    <<"1","2","3","4","5","6","7","8","9","10","11","12","13","14","15","16">>

base_url == <<"https://x/y.html">>

\* The same URL as urllib.parse takes it apart.
tutorial_url == <<"https:", "//", "x", "/", "y.html">>

Node(p, k) == [parent |-> p, kind |-> k]

\* The containers a next element in document order can be a child of.
RECURSIVE PathUp(_, _)
PathUp(sh, i) == IF i = 0 THEN {0} ELSE {i} \cup PathUp(sh, sh[i].parent)

OpenContainers(sh) ==
    IF sh = <<>> THEN {0}
    ELSE IF Last(sh).kind = "s" THEN PathUp(sh, Len(sh))
    ELSE PathUp(sh, Last(sh).parent)

\* Every tree of n elements: headings (h), section containers (s), content (p).
RECURSIVE ShapesOf(_)
ShapesOf(n) ==
    IF n = 0 THEN {<<>>}
    ELSE UNION { { Append(sh, Node(p, k)) : p \in OpenContainers(sh), k \in {"h", "s", "p"} }
                 : sh \in ShapesOf(n - 1) }

\* A root with two subsections that have subsections of their own, and a
\* sibling top-level container (the layout of the tutorial fixtures).
NestedShape ==
    << Node(0, "s"), Node(1, "h"), Node(1, "s"), Node(3, "h"), Node(3, "s"), Node(5, "h"), Node(5, "p"),
       Node(3, "p"), Node(1, "s"), Node(9, "h"), Node(9, "s"), Node(11, "h"), Node(1, "p"),
       Node(0, "s"), Node(14, "h") >>

\* A root that holds a second heading after its subsection, and a sibling.
TwoHeadingShape ==
    << Node(0, "s"), Node(1, "h"), Node(1, "s"), Node(3, "h"), Node(1, "h"), Node(0, "s"), Node(6, "h") >>

Shapes == UNION { ShapesOf(n) : n \in 0..MaxNodes } \cup {NestedShape, TwoHeadingShape}

NoOddity == [node |-> 0, what |-> "none", text |-> <<>>]

\* At most one element of a page departs from the plain layout: a heading
\* that names metadata, a container without an id, a content element with
\* a cell_output, a comment, or an image (with or without src).
Oddities(sh) ==
    {NoOddity}
    \cup { [node |-> i, what |-> "meta", text |-> t] :
             i \in {j \in 1..Len(sh) : sh[j].kind = "h"}, t \in MetaTexts }
    \cup { [node |-> i, what |-> "noid", text |-> <<>>] :
             i \in {j \in 1..Len(sh) : sh[j].kind = "s"} }
    \cup { [node |-> i, what |-> w, text |-> <<>>] :
             i \in {j \in 1..Len(sh) : sh[j].kind = "p"},
             w \in {"output", "comment", "img", "img_nosrc"} }

HeadingTextOf(i, od) ==
    IF od.node = i THEN od.text
    ELSE IF i % 2 = 0 THEN <<"T", NodeName[i], "PILCROW">> ELSE <<"t", NodeName[i]>>

ContentTextOf(i) ==
    IF i % 2 = 0 THEN <<"c", NodeName[i], "BS", "n", "d", "BS">>
    ELSE <<" ", "c", NodeName[i], "NL", "d", "NL">>

\* Sphinx derives a container's id from its first heading.
SectionIdOf(sh, i, od) ==
    LET hs == {j \in 1..Len(sh) : sh[j].parent = i /\ sh[j].kind = "h"}
        first == CHOOSE j \in hs : \A k \in hs : j <= k
        slug == IF hs = {} THEN <<>> ELSE Lower(header_callback(HeadingTextOf(first, od)))
    IN  IF slug \in ignored_headings THEN slug ELSE <<"s", NodeName[i]>>

ElementOf(sh, i, od) ==
    LET k == sh[i].kind
        odd == od.node = i
    IN  [ parent  |-> sh[i].parent,
          tag     |-> IF k = "h" THEN (IF i % 2 = 0 THEN "h1" ELSE "h2")
                      ELSE IF k = "s" THEN (IF i % 2 = 0 THEN "section" ELSE "div")
                      ELSE IF odd /\ od.what = "comment" THEN "COMMENT"
                      ELSE IF odd /\ od.what \in {"img", "img_nosrc"} THEN "img"
                      ELSE IF i % 2 = 0 THEN "div" ELSE "p",
          classes |-> IF k = "s" /\ i % 2 = 1 THEN {"section"} ELSE {},
          hasId   |-> k = "s" /\ ~(odd /\ od.what = "noid"),
          id      |-> IF k = "s" THEN SectionIdOf(sh, i, od) ELSE <<>>,
          text    |-> IF k = "h" THEN HeadingTextOf(i, od)
                      ELSE IF k = "p" /\ ~(odd /\ od.what \in {"img", "img_nosrc"})
                           THEN ContentTextOf(i) ELSE <<>>,
          output  |-> IF k = "p" /\ odd /\ od.what = "output" THEN <<"o", "u", "t">> ELSE <<>>,
          hasSrc  |-> k = "p" /\ odd /\ od.what = "img",
          src     |-> IF k = "p" /\ odd /\ od.what = "img"
                      THEN <<"i", "m", "g", "/", NodeName[i]>> ELSE <<>> ]

BuildDoc(sh, od) == [i \in 1..Len(sh) |-> ElementOf(sh, i, od)]

-----------------------------------------------------------------------------
(* lxml element operations *)

\* list(element): the direct children, in document order
Children(d, c) ==
    SelectSeq([j \in 1..Len(d) |-> j], LAMBDA j : d[j].parent = c)

RECURSIVE AncestorsOf(_, _)
AncestorsOf(d, i) ==
    IF i = 0 \/ d[i].parent = 0 THEN {}
    ELSE {d[i].parent} \cup AncestorsOf(d, d[i].parent)

\* The test of utils.py lines 107-109: a section tag, or a div of class section.
IsSectionContainer(e) ==
    (e.tag = "section") \/ (e.tag = "div" /\ "section" \in e.classes)

\* HtmlComment supports neither find_class() nor text_content(): ValueError.
RaisesValueError(e) == e.tag = "COMMENT"

\* find_class("cell_output") ... drop_tree() on an element
drop_cell_outputs(e) == [e EXCEPT !.output = <<>>]

text_content(e) == e.text \o e.output

\* Mutant: attrib.get("id", "") in place of attrib["id"].
attrib_id_default(e) == [ok |-> TRUE, value |-> IF e.hasId THEN e.id ELSE <<>>]

\* element.attrib["id"]: the value, or KeyError
attrib_id(e) ==
    IF e.hasId THEN [ok |-> TRUE, value |-> e.id] ELSE [ok |-> FALSE, value |-> <<>>]

-----------------------------------------------------------------------------
(* reducers/utils.py: Section *)

Section(content, headings, url) ==
    [content |-> content, headings |-> headings, url |-> url]

header_level(s) == Len(s.headings)

\* int(tag[1])
TagLevel(tag) ==
    (("h1" :> 1) @@ ("h2" :> 2) @@ ("h3" :> 3) @@ ("h4" :> 4) @@ ("h5" :> 5) @@ ("h6" :> 6))[tag]

\* Mutant: the path is cut to new_level headings, not new_level - 1.
new_section_cut_late(self, tag, header, url) ==
    LET new_level == TagLevel(tag)
        new_headers == IF new_level > header_level(self)
                       THEN self.headings \o <<header>>
                       ELSE SubSeq(self.headings, 1, new_level) \o <<header>>
    IN  [self |-> self, result |-> Section(<<>>, new_headers, url)]

\* Mutant: the header is appended to the whole path, whatever its level.
new_section_appending(self, tag, header, url) ==
    [self |-> self, result |-> Section(<<>>, self.headings \o <<header>>, url)]

\* Mutant: the new section starts with the content of the receiver.
new_section_keeping_content(self, tag, header, url) ==
    LET new_level == TagLevel(tag)
        new_headers == IF new_level > header_level(self)
                       THEN self.headings \o <<header>>
                       ELSE SubSeq(self.headings, 1, new_level - 1) \o <<header>>
    IN  [self |-> self, result |-> Section(self.content, new_headers, url)]

\* Section.new_section: the receiver as the call leaves it, and the result
new_section(self, tag, header, url) ==
    LET new_level == TagLevel(tag)
        new_headers == IF new_level > header_level(self)
                       THEN self.headings \o <<header>>
                       ELSE SubSeq(self.headings, 1, new_level - 1) \o <<header>>
    IN  [self |-> self, result |-> Section(<<>>, new_headers, url)]

-----------------------------------------------------------------------------
(* algolia/records.py: the objectID of a section's record *)

\* The code points of the characters of the texts.
Ascii ==
    (" " :> 32) @@ ("#" :> 35) @@ ("," :> 44) @@ ("-" :> 45) @@
    ("." :> 46) @@ ("/" :> 47) @@ ("0" :> 48) @@ ("1" :> 49) @@
    ("2" :> 50) @@ ("3" :> 51) @@ ("4" :> 52) @@ ("5" :> 53) @@
    ("6" :> 54) @@ ("7" :> 55) @@ ("8" :> 56) @@ ("9" :> 57) @@
    (":" :> 58) @@ (";" :> 59) @@ ("=" :> 61) @@ ("A" :> 65) @@
    ("B" :> 66) @@ ("C" :> 67) @@ ("D" :> 68) @@ ("E" :> 69) @@
    ("F" :> 70) @@ ("G" :> 71) @@ ("H" :> 72) @@ ("I" :> 73) @@
    ("J" :> 74) @@ ("K" :> 75) @@ ("L" :> 76) @@ ("M" :> 77) @@
    ("N" :> 78) @@ ("O" :> 79) @@ ("P" :> 80) @@ ("Q" :> 81) @@
    ("R" :> 82) @@ ("S" :> 83) @@ ("T" :> 84) @@ ("U" :> 85) @@
    ("V" :> 86) @@ ("W" :> 87) @@ ("X" :> 88) @@ ("Y" :> 89) @@
    ("Z" :> 90) @@ ("_" :> 95) @@ ("a" :> 97) @@ ("b" :> 98) @@
    ("c" :> 99) @@ ("d" :> 100) @@ ("e" :> 101) @@ ("f" :> 102) @@
    ("g" :> 103) @@ ("h" :> 104) @@ ("i" :> 105) @@ ("j" :> 106) @@
    ("k" :> 107) @@ ("l" :> 108) @@ ("m" :> 109) @@ ("n" :> 110) @@
    ("o" :> 111) @@ ("p" :> 112) @@ ("q" :> 113) @@ ("r" :> 114) @@
    ("s" :> 115) @@ ("t" :> 116) @@ ("u" :> 117) @@ ("v" :> 118) @@
    ("w" :> 119) @@ ("x" :> 120) @@ ("y" :> 121) @@ ("z" :> 122)

\* Tokens that stand for more than one character, spelled out.
Chars ==
    ("https://x/y.html" :> << "h", "t", "t", "p", "s", ":", "/", "/", "x", "/", "y", ".", "h", "t", "m", "l" >>) @@
    ("https://x/" :> << "h", "t", "t", "p", "s", ":", "/", "/", "x", "/" >>) @@
    (".html" :> << ".", "h", "t", "m", "l" >>) @@
    ("10" :> << "1", "0" >>) @@
    ("11" :> << "1", "1" >>) @@
    ("12" :> << "1", "2" >>) @@
    ("13" :> << "1", "3" >>) @@
    ("14" :> << "1", "4" >>) @@
    ("15" :> << "1", "5" >>) @@
    ("16" :> << "1", "6" >>)

\* str.encode("utf-8") of one token
EncodeToken(t) ==
    IF t = "PILCROW" THEN <<194, 182>>
    ELSE IF t = "NL" THEN <<10>>
    ELSE IF t = "TAB" THEN <<9>>
    ELSE IF t = "BS" THEN <<92>>
    ELSE IF t \in DOMAIN Chars THEN [k \in 1..Len(Chars[t]) |-> Ascii[Chars[t][k]]]
    ELSE <<Ascii[t]>>

\* str.encode("utf-8")
encode(x) == Concat([k \in 1..Len(x) |-> EncodeToken(x[k])])

B64Alphabet ==
    << "A", "B", "C", "D", "E", "F", "G", "H", "I", "J", "K", "L", "M", "N",
       "O", "P", "Q", "R", "S", "T", "U", "V", "W", "X", "Y", "Z", "a", "b",
       "c", "d", "e", "f", "g", "h", "i", "j", "k", "l", "m", "n", "o", "p",
       "q", "r", "s", "t", "u", "v", "w", "x", "y", "z", "0", "1", "2", "3",
       "4", "5", "6", "7", "8", "9", "+", "/" >>

\* One group of up to three bytes as four base64 characters.
B64Group(b) ==
    LET n  == Len(b)
        b1 == b[1]
        b2 == IF n >= 2 THEN b[2] ELSE 0
        b3 == IF n >= 3 THEN b[3] ELSE 0
    IN  << B64Alphabet[(b1 \div 4) + 1],
           B64Alphabet[((b1 % 4) * 16 + (b2 \div 16)) + 1],
           IF n >= 2 THEN B64Alphabet[((b2 % 16) * 4 + (b3 \div 64)) + 1] ELSE "=",
           IF n >= 3 THEN B64Alphabet[(b3 % 64) + 1] ELSE "=" >>

\* base64.b64encode(bytes).decode("utf-8")
RECURSIVE b64encode(_)
b64encode(b) ==
    IF b = <<>> THEN <<>>
    ELSE IF Len(b) <= 3 THEN B64Group(b)
    ELSE B64Group(SubSeq(b, 1, 3)) \o b64encode(SubSeq(b, 4, Len(b)))

\* Mutant: the URL is encoded as it is written, without lower().
compute_object_id_for_section_cased(section) ==
    b64encode(encode(section.url)) \o <<"-">>
        \o b64encode(encode(Join(<<" ">>, section.headings)))

\* records.py lines 143-149
compute_object_id_for_section(section) ==
    LET url_component == b64encode(encode(Lower(section.url)))
        heading_component == b64encode(encode(Join(<<" ">>, section.headings)))
    IN  url_component \o <<"-">> \o heading_component

-----------------------------------------------------------------------------
(* re.match and urllib.parse, as the code calls them *)

Digits == {"0", "1", "2", "3", "4", "5", "6", "7", "8", "9"}

\* The literal part of the pattern: "; url="
UrlKey == <<";", " ", "u", "r", "l", "=">>

RECURSIVE TakeWhile(_, _)
TakeWhile(s, set) ==
    IF s # <<>> /\ Head(s) \in set THEN <<Head(s)>> \o TakeWhile(Tail(s), set) ELSE <<>>

RECURSIVE TakeUntil(_, _)
TakeUntil(s, set) ==
    IF s # <<>> /\ Head(s) \notin set THEN <<Head(s)>> \o TakeUntil(Tail(s), set) ELSE <<>>

Drop(s, n) == SubSeq(s, n + 1, Len(s))

\* re.match(r"\d+; url=(.+)", content): anchored at the start only; "." is
\* any character but a line break.
re_match(c) ==
    LET digits == TakeWhile(c, Digits)
        rest == Drop(c, Len(digits))
        group == TakeUntil(Drop(rest, Len(UrlKey)), {"NL"})
    IN  IF digits # <<>> /\ IsPrefix(UrlKey, rest) /\ group # <<>>
        THEN [ok |-> TRUE, group |-> group]
        ELSE [ok |-> FALSE, group |-> <<>>]

\* The schemes of these pages; both are in urllib's uses_relative and uses_netloc.
Schemes == {"https:", "http:"}

\* urllib.parse.urlparse, for URLs without params, query or fragment
urlparse(u, default_scheme) ==
    LET has_scheme == u # <<>> /\ Head(u) \in Schemes
        scheme == IF has_scheme THEN Head(u) ELSE default_scheme
        rest == IF has_scheme THEN Tail(u) ELSE u
        has_netloc == rest # <<>> /\ Head(rest) = "//"
        netloc == IF has_netloc THEN TakeUntil(Tail(rest), {"/"}) ELSE <<>>
        path == IF has_netloc THEN Drop(rest, 1 + Len(netloc)) ELSE rest
    IN  [scheme |-> scheme, netloc |-> netloc, path |-> path]

\* urllib.parse.urlunparse (urlunsplit), without query or fragment
urlunparse(scheme, netloc, path) ==
    LET slashes == path # <<>> /\ (Head(path) = "//" \/ (Len(path) >= 2 /\ path[1] = "/" /\ path[2] = "/"))
        rooted == path = <<>> \/ Head(path) \in {"/", "//"}
        url == IF netloc # <<>> \/ (scheme \in Schemes /\ ~slashes)
               THEN <<"//">> \o netloc \o (IF rooted THEN path ELSE <<"/">> \o path)
               ELSE path
    IN  (IF scheme # "" THEN <<scheme>> ELSE <<>>) \o url

\* str.split("/")
RECURSIVE Split(_)
Split(path) ==
    LET first == TakeUntil(path, {"/"})
    IN  IF Len(first) = Len(path) THEN <<path>>
        ELSE <<first>> \o Split(Drop(path, Len(first) + 1))

\* The loop of urljoin that resolves "." and ".." segments.
RECURSIVE ResolveDots(_, _)
ResolveDots(segments, resolved_path) ==
    IF segments = <<>> THEN resolved_path
    ELSE LET seg == Head(segments)
         IN  IF seg = <<"..">>
             THEN ResolveDots(Tail(segments),
                              IF resolved_path = <<>> THEN <<>> ELSE Front(resolved_path))
             ELSE IF seg = <<".">> THEN ResolveDots(Tail(segments), resolved_path)
             ELSE ResolveDots(Tail(segments), Append(resolved_path, seg))

\* urllib.parse.urljoin
urljoin(base, url) ==
    IF base = <<>> THEN url
    ELSE IF url = <<>> THEN base
    ELSE LET b == urlparse(base, "")
             r == urlparse(url, b.scheme)
             base_parts == IF Last(Split(b.path)) # <<>> THEN Front(Split(b.path))
                           ELSE Split(b.path)
             joined == base_parts \o Split(r.path)
             segments == IF r.path # <<>> /\ Head(r.path) = "/" THEN Split(r.path)
                         ELSE [k \in 1..Len(SelectSeq([j \in 1..Len(joined) |-> j],
                                     LAMBDA j : j = 1 \/ j = Len(joined) \/ joined[j] # <<>>))
                               |-> joined[SelectSeq([j \in 1..Len(joined) |-> j],
                                     LAMBDA j : j = 1 \/ j = Len(joined) \/ joined[j] # <<>>)[k]]]
             resolved_path == ResolveDots(segments, <<>>)
                              \o (IF Last(segments) \in {<<".">>, <<"..">>} THEN <<(<<>>)>> ELSE <<>>)
             new_path == IF Join(<<"/">>, resolved_path) = <<>> THEN <<"/">>
                         ELSE Join(<<"/">>, resolved_path)
         IN  IF r.scheme # b.scheme THEN url
             ELSE IF r.netloc # <<>> THEN urlunparse(r.scheme, r.netloc, r.path)
             ELSE IF r.path = <<>> THEN urlunparse(r.scheme, b.netloc, b.path)
             ELSE urlunparse(r.scheme, b.netloc, new_path)

-----------------------------------------------------------------------------
(* reducers/tutorial.py: ReducedTutorial *)

\* Mutant: the headings are compared without lower().
_is_ignored_section_cased(section) ==
    { section.headings[i] : i \in 1..Len(section.headings) } \cap ignored_headings # {}

_is_ignored_section(section) ==
    LET section_headings == { Lower(section.headings[i]) : i \in 1..Len(section.headings) }
    IN  section_headings \cap ignored_headings # {}

\* doc.cssselect("#summary p")[0].text_content().replace(NL, " "), or unset
SummaryOf(d) ==
    LET holders == { c \in 1..Len(d) : d[c].hasId /\ d[c].id = <<"s","u","m","m","a","r","y">> }
        ps == { j \in 1..Len(d) : d[j].tag = "p" /\ AncestorsOf(d, j) \cap holders # {} }
        first == CHOOSE j \in ps : \A k \in ps : j <= k
    IN  IF ps = {} THEN <<>>
        ELSE Replace(text_content(d[first]), <<"NL">>, <<" ">>)

RECURSIVE TakeUntilComma(_)
TakeUntilComma(x) ==
    IF x = <<>> \/ Head(x) = "," THEN <<>> ELSE <<Head(x)>> \o TakeUntilComma(Tail(x))

\* str.split(",")
RECURSIVE SplitCommas(_)
SplitCommas(x) ==
    LET first == TakeUntilComma(x)
    IN  IF Len(first) = Len(x) THEN <<x>>
        ELSE <<first>> \o SplitCommas(SubSeq(x, Len(first) + 2, Len(x)))

\* ReducedTutorial._parse_comma_list
_parse_comma_list(e) ==
    LET parts == SplitCommas(text_content(e))
    IN  [k \in 1..Len(parts) |-> Strip(parts[k])]

\* The first element of a set of elements, in document order
FirstOf(js) == CHOOSE j \in js : \A k \in js : j <= k

\* Elements inside a section container of the card.
InSection(d, j) == \E c \in AncestorsOf(d, j) : IsSectionContainer(d[c])

\* tutorial.py lines 166-169: doc.cssselect("h1")[0], or unset
H1Of(d) ==
    LET hs == { j \in 1..Len(d) : d[j].tag = "h1" }
    IN  IF hs = {} THEN <<>> ELSE RStrip(text_content(d[FirstOf(hs)]), {"PILCROW"})

\* tutorial.py lines 171-177: the first paragraph of a section, or unset
AuthorsOf(d) ==
    LET ps == { j \in 1..Len(d) : d[j].tag = "p" /\ InSection(d, j) }
    IN  IF ps = {} THEN <<>> ELSE _parse_comma_list(d[FirstOf(ps)])

\* tutorial.py lines 179-183: doc.cssselect("#keywords p")[0], or unset
KeywordsOf(d) ==
    LET holders == { c \in 1..Len(d) : d[c].hasId /\ d[c].id = <<"k","e","y","w","o","r","d","s">> }
        ps == { j \in 1..Len(d) : d[j].tag = "p" /\ AncestorsOf(d, j) \cap holders # {} }
    IN  IF ps = {} THEN <<>> ELSE _parse_comma_list(d[FirstOf(ps)])

\* doc.cssselect(".card section img, .card .section img"): in document order
ImageElements(d) ==
    SelectSeq([j \in 1..Len(d) |-> j], LAMBDA j : d[j].tag = "img" /\ InSection(d, j))

\* tutorial.py lines 191-194: the URLs of the images; attrib["src"] of an
\* image without src is a KeyError
ImagesOf(d) ==
    [k \in 1..Len(ImageElements(d)) |-> urljoin(tutorial_url, d[ImageElements(d)[k]].src)]

ImagesRaise(d) == \E k \in 1..Len(ImageElements(d)) : ~d[ImageElements(d)[k]].hasSrc

\* doc.cssselect(".card .section, .card section"): in document order
SectionContainers(d) == { j \in 1..Len(d) : IsSectionContainer(d[j]) }

RootOf(d) == CHOOSE j \in SectionContainers(d) : \A k \in SectionContainers(d) : j <= k

\* root_section.itersiblings(tag=("div", "section"))
SiblingsOf(d, r) ==
    SelectSeq([j \in 1..Len(d) |-> j],
              LAMBDA j : j > r /\ d[j].parent = d[r].parent /\ d[j].tag \in {"div", "section"})

NoSection == [content |-> <<>>, headings |-> <<>>, url |-> <<>>]

\* tutorial.py lines 77-81: the metadata of a tutorial before process_html
NoMeta == [h1 |-> <<>>, authors |-> <<>>, keywords |-> <<>>, images |-> <<>>]

NoArgs == [tag |-> "", header |-> <<>>, url |-> <<>>]

SphinxIdle ==
    /\ doc = <<>>
    /\ stack = <<>>
    /\ yielded = <<>>
    /\ sections = <<>>
    /\ summary = <<>>
    /\ h1_heading = <<>>
    /\ sibs = <<>>
    /\ tutorial_meta = NoMeta

FlatIdle ==
    /\ root_element = <<>>
    /\ callbacks = [header |-> FALSE, content |-> FALSE]
    /\ pos = 0
    /\ current_section = NoSection
    /\ out = <<>>
    /\ args = NoArgs
    /\ derived = NoSection

RedirectIdle ==
    /\ meta_content = <<>>
    /\ source_url = <<>>
    /\ redirect_url = <<>>

NoPage == [url |-> <<>>, metas |-> <<>>]

NotReturned == [isNone |-> FALSE, url |-> <<>>]

DetectIdle ==
    /\ html_page = NoPage
    /\ meta_pos = 0
    /\ detected = NotReturned

RecordIdle ==
    /\ in_sections = <<>>
    /\ records = <<>>

ExpireIdle ==
    /\ algolia_index = [kind |-> "none", objects |-> {}]
    /\ expire_args = [root_url |-> "", index_epoch |-> ""]
    /\ hits = <<>>
    /\ old_object_ids = <<>>

FanoutIdle ==
    /\ site = <<>>
    /\ tasks = <<>>

KeywordIdle ==
    /\ keyword_call = [group |-> "", keywords |-> <<>>]
    /\ input_keywords = <<>>
    /\ kw_pos = 0
    /\ output_keywords = <<>>

JbPageIdle ==
    /\ book_page = <<>>
    /\ accessed = <<>>

NoHomepage == [from |-> "none", url |-> <<>>]

HomepageIdle ==
    /\ fetches = <<>>
    /\ homepage = NoHomepage

NoCall == [objectID |-> <<>>, content |-> <<>>, rest |-> 0, max_size |-> 0]

CappedIdle ==
    /\ capped_call = NoCall
    /\ capped_out = <<>>

\* Every entry point but m is idle.
WorkflowIdleBut(m) ==
    /\ (m = "detect" \/ DetectIdle)
    /\ (m = "record" \/ RecordIdle)
    /\ (m = "expire" \/ ExpireIdle)
    /\ (m = "fanout" \/ FanoutIdle)
    /\ (m = "keywords" \/ KeywordIdle)
    /\ (m = "jbpage" \/ JbPageIdle)
    /\ (m = "homepage" \/ HomepageIdle)
    /\ (m = "capped" \/ CappedIdle)

WorkflowIdle == WorkflowIdleBut("none")

\* The frame of one iter_sphinx_sections call as its body starts.
NewFrame(d, node, headers) ==
    [ node |-> node, i |-> 1, headers |-> headers,
      url |-> base_url \o <<"#">> \o attrib_id(d[node]).value,
      bound |-> FALSE, current_headers |-> <<>>, text_elements |-> <<>> ]

Raise(e) ==
    /\ pc' = "error"
    /\ err' = e
    /\ stack' = <<>>

\* Mutant: the first match of "h1" is read without the guard against
\* IndexError.
ProcessHtmlStartUnguarded ==
    /\ mode = "sphinx"
    /\ pc = "start"
    /\ IF { j \in 1..Len(doc) : doc[j].tag = "h1" } = {}
       THEN /\ Raise("IndexError")
            /\ UNCHANGED <<summary, tutorial_meta>>
       ELSE /\ summary' = SummaryOf(doc)
            /\ tutorial_meta' = [ h1 |-> H1Of(doc), authors |-> AuthorsOf(doc),
                                  keywords |-> KeywordsOf(doc),
                                  images |-> IF ImagesRaise(doc) THEN <<>> ELSE ImagesOf(doc) ]
            /\ IF ImagesRaise(doc) THEN Raise("KeyError: 'src'")
               ELSE IF SectionContainers(doc) = {} THEN Raise("IndexError")
               ELSE IF ~attrib_id(doc[RootOf(doc)]).ok THEN Raise("KeyError")
               ELSE /\ stack' = <<NewFrame(doc, RootOf(doc), <<>>)>>
                    /\ pc' = "root"
                    /\ err' = err
    /\ UNCHANGED <<mode, doc, yielded, sections, h1_heading, sibs, flatVars, redirectVars, workflowVars>>

\* process_html up to the first step of the root's generator: the metadata
\* (tutorial.py lines 166-194), then the root container (lines 196-203)
ProcessHtmlStart ==
    /\ mode = "sphinx"
    /\ pc = "start"
    /\ summary' = SummaryOf(doc)
    /\ tutorial_meta' = [ h1 |-> H1Of(doc), authors |-> AuthorsOf(doc),
                          keywords |-> KeywordsOf(doc),
                          images |-> IF ImagesRaise(doc) THEN <<>> ELSE ImagesOf(doc) ]
    /\ IF ImagesRaise(doc) THEN Raise("KeyError: 'src'")
       ELSE IF SectionContainers(doc) = {} THEN Raise("IndexError")
       ELSE IF ~attrib_id(doc[RootOf(doc)]).ok THEN Raise("KeyError")
       ELSE /\ stack' = <<NewFrame(doc, RootOf(doc), <<>>)>>
            /\ pc' = "root"
            /\ err' = err
    /\ UNCHANGED <<mode, doc, yielded, sections, h1_heading, sibs, flatVars, redirectVars, workflowVars>>

Iterating == mode = "sphinx" /\ pc \in {"root", "sibling"} /\ stack # <<>>

Top == stack[Len(stack)]

TopChildren == Children(doc, Top.node)

SetTop(f) == [stack EXCEPT ![Len(stack)] = f]

\* Mutant: a heading closes the section gathered so far, as the flat
\* sectionizer does.
IterHeadingYielding ==
    /\ Iterating
    /\ Top.i <= Len(TopChildren)
    /\ LET element == doc[TopChildren[Top.i]]
       IN  /\ element.tag \in HEADING_TAGS
           /\ LET current_header == header_callback(text_content(element))
              IN  stack' = SetTop([Top EXCEPT !.i = @ + 1,
                                              !.bound = TRUE,
                                              !.current_headers = Top.headers \o <<current_header>>])
           /\ yielded' = IF Top.bound
                         THEN Append(yielded, [inv |-> stack[1].node, node |-> Top.node,
                                               section |-> Section(Join(<<"NL", "NL">>, Top.text_elements),
                                                                   Top.current_headers, Top.url)])
                         ELSE yielded
    /\ UNCHANGED <<mode, pc, err, doc, sections, summary, h1_heading, sibs, tutorial_meta, flatVars, redirectVars, workflowVars>>

\* Mutant: each heading of a container is appended to the path of the one
\* before it.
IterHeadingAccumulating ==
    /\ Iterating
    /\ Top.i <= Len(TopChildren)
    /\ LET element == doc[TopChildren[Top.i]]
       IN  /\ element.tag \in HEADING_TAGS
           /\ LET current_header == header_callback(text_content(element))
              IN  stack' = SetTop([Top EXCEPT
                      !.i = @ + 1,
                      !.bound = TRUE,
                      !.current_headers = (IF Top.bound THEN Top.current_headers ELSE Top.headers)
                                             \o <<current_header>>])
    /\ UNCHANGED <<mode, pc, err, doc, yielded, sections, summary, h1_heading, sibs, tutorial_meta, flatVars, redirectVars, workflowVars>>

\* utils.py lines 102-106: a heading element
IterHeading ==
    /\ Iterating
    /\ Top.i <= Len(TopChildren)
    /\ LET element == doc[TopChildren[Top.i]]
       IN  /\ element.tag \in HEADING_TAGS
           /\ LET current_header == header_callback(text_content(element))
              IN  stack' = SetTop([Top EXCEPT !.i = @ + 1,
                                              !.bound = TRUE,
                                              !.current_headers = Top.headers \o <<current_header>>])
    /\ UNCHANGED <<mode, pc, err, doc, yielded, sections, summary, h1_heading, sibs, tutorial_meta, flatVars, redirectVars, workflowVars>>

\* Mutant: the recursive call is made without "yield from", so the nested
\* generator never runs.
IterNestedNoYieldFrom ==
    /\ Iterating
    /\ Top.i <= Len(TopChildren)
    /\ LET element == doc[TopChildren[Top.i]]
       IN  /\ element.tag \notin HEADING_TAGS
           /\ IsSectionContainer(element)
           /\ IF ~Top.bound THEN Raise("UnboundLocalError")
              ELSE /\ stack' = SetTop([Top EXCEPT !.i = @ + 1])
                   /\ UNCHANGED <<pc, err>>
    /\ UNCHANGED <<mode, doc, yielded, sections, summary, h1_heading, sibs, tutorial_meta, flatVars, redirectVars, workflowVars>>

\* utils.py lines 107-116: a nested section container
IterNested ==
    /\ Iterating
    /\ Top.i <= Len(TopChildren)
    /\ LET child == TopChildren[Top.i]
           element == doc[child]
       IN  /\ element.tag \notin HEADING_TAGS
           /\ IsSectionContainer(element)
           /\ IF ~Top.bound THEN Raise("UnboundLocalError")
              ELSE IF ~attrib_id(element).ok THEN Raise("KeyError")
              ELSE /\ stack' = Append(SetTop([Top EXCEPT !.i = @ + 1]),
                                      NewFrame(doc, child, Top.current_headers))
                   /\ UNCHANGED <<pc, err>>
    /\ UNCHANGED <<mode, doc, yielded, sections, summary, h1_heading, sibs, tutorial_meta, flatVars, redirectVars, workflowVars>>

\* Mutant: the yield of lines 148-150 indented into the content branch, so
\* the container's section is also yielded at each content element.
IterContentYielding ==
    /\ Iterating
    /\ Top.i <= Len(TopChildren)
    /\ LET element == doc[TopChildren[Top.i]]
           texts == IF RaisesValueError(element) THEN Top.text_elements
                    ELSE Append(Top.text_elements,
                                clean_content(text_content(drop_cell_outputs(element))))
           s == Section(Join(<<"NL", "NL">>, texts), Top.current_headers, Top.url)
       IN  /\ element.tag \notin HEADING_TAGS
           /\ ~IsSectionContainer(element)
           /\ stack' = SetTop([Top EXCEPT !.i = @ + 1, !.text_elements = texts])
           /\ yielded' = IF Top.bound
                         THEN Append(yielded, [inv |-> stack[1].node, node |-> Top.node, section |-> s])
                         ELSE yielded
           /\ sections' = IF Top.bound /\ ~_is_ignored_section(s)
                          THEN Append(sections, s) ELSE sections
    /\ UNCHANGED <<mode, pc, err, doc, summary, h1_heading, sibs, tutorial_meta, flatVars, redirectVars, workflowVars>>

\* Mutant: the ValueError of text_content() is not caught.
IterContentRaising ==
    /\ Iterating
    /\ Top.i <= Len(TopChildren)
    /\ LET element == doc[TopChildren[Top.i]]
           content_element == IF RaisesValueError(element) THEN element
                              ELSE drop_cell_outputs(element)
       IN  /\ element.tag \notin HEADING_TAGS
           /\ ~IsSectionContainer(element)
           /\ IF RaisesValueError(content_element)
              THEN Raise("ValueError")
              ELSE /\ stack' = SetTop([Top EXCEPT
                         !.i = @ + 1,
                         !.text_elements = Append(@, clean_content(text_content(content_element)))])
                   /\ UNCHANGED <<pc, err>>
    /\ UNCHANGED <<mode, doc, yielded, sections, summary, h1_heading, sibs, tutorial_meta, flatVars, redirectVars, workflowVars>>

\* Mutant: the cell_output divs are dropped from the element itself, not
\* from a deepcopy of it.
IterContentInPlace ==
    /\ Iterating
    /\ Top.i <= Len(TopChildren)
    /\ LET child == TopChildren[Top.i]
           element == doc[child]
           content_element == IF RaisesValueError(element) THEN element
                              ELSE drop_cell_outputs(element)
       IN  /\ element.tag \notin HEADING_TAGS
           /\ ~IsSectionContainer(element)
           /\ doc' = [doc EXCEPT ![child] = content_element]
           /\ IF RaisesValueError(content_element)
              THEN stack' = SetTop([Top EXCEPT !.i = @ + 1])
              ELSE stack' = SetTop([Top EXCEPT
                       !.i = @ + 1,
                       !.text_elements = Append(@, clean_content(text_content(content_element)))])
    /\ UNCHANGED <<mode, pc, err, yielded, sections, summary, h1_heading, sibs, tutorial_meta, flatVars, redirectVars, workflowVars>>

\* utils.py lines 117-146: any other element
IterContent ==
    /\ Iterating
    /\ Top.i <= Len(TopChildren)
    /\ LET element == doc[TopChildren[Top.i]]
           content_element == IF RaisesValueError(element) THEN element
                              ELSE drop_cell_outputs(element)
       IN  /\ element.tag \notin HEADING_TAGS
           /\ ~IsSectionContainer(element)
           /\ IF RaisesValueError(content_element)
              THEN stack' = SetTop([Top EXCEPT !.i = @ + 1])
              ELSE stack' = SetTop([Top EXCEPT
                       !.i = @ + 1,
                       !.text_elements = Append(@, clean_content(text_content(content_element)))])
    /\ UNCHANGED <<mode, pc, err, doc, yielded, sections, summary, h1_heading, sibs, tutorial_meta, flatVars, redirectVars, workflowVars>>

\* Mutant: the text of a nested container is also added to the text of the
\* container around it.
IterYieldLeaking ==
    /\ Iterating
    /\ Top.i > Len(TopChildren)
    /\ IF ~Top.bound
       THEN /\ Raise("UnboundLocalError")
            /\ UNCHANGED <<yielded, sections>>
       ELSE LET s == Section(Join(<<"NL", "NL">>, Top.text_elements),
                             Top.current_headers, Top.url)
            IN  /\ yielded' = Append(yielded,
                        [inv |-> stack[1].node, node |-> Top.node, section |-> s])
                /\ sections' = IF _is_ignored_section(s) THEN sections
                               ELSE Append(sections, s)
                /\ stack' = IF Len(stack) > 1
                            THEN [Front(stack) EXCEPT ![Len(stack) - 1].text_elements =
                                                         @ \o Top.text_elements]
                            ELSE Front(stack)
                /\ pc' = IF Len(stack) > 1 THEN pc
                         ELSE IF pc = "root" THEN "h1" ELSE "siblings"
                /\ err' = err
    /\ UNCHANGED <<mode, doc, summary, h1_heading, sibs, tutorial_meta, flatVars, redirectVars, workflowVars>>

\* Mutant: current_headers starts as the headers of the call, so a
\* container without a heading is yielded under the path of its parent.
IterYieldInherited ==
    /\ Iterating
    /\ Top.i > Len(TopChildren)
    /\ LET s == Section(Join(<<"NL", "NL">>, Top.text_elements),
                        IF Top.bound THEN Top.current_headers ELSE Top.headers, Top.url)
       IN  /\ yielded' = Append(yielded,
                   [inv |-> stack[1].node, node |-> Top.node, section |-> s])
           /\ sections' = IF _is_ignored_section(s) THEN sections
                          ELSE Append(sections, s)
           /\ stack' = Front(stack)
           /\ pc' = IF Len(stack) > 1 THEN pc
                    ELSE IF pc = "root" THEN "h1" ELSE "siblings"
           /\ err' = err
    /\ UNCHANGED <<mode, doc, summary, h1_heading, sibs, tutorial_meta, flatVars, redirectVars, workflowVars>>

\* utils.py lines 148-150, and the body of the loop that consumes the
\* generator (tutorial.py lines 204-205, 222-223)
IterYield ==
    /\ Iterating
    /\ Top.i > Len(TopChildren)
    /\ IF ~Top.bound
       THEN /\ Raise("UnboundLocalError")
            /\ UNCHANGED <<yielded, sections>>
       ELSE LET s == Section(Join(<<"NL", "NL">>, Top.text_elements),
                             Top.current_headers, Top.url)
            IN  /\ yielded' = Append(yielded,
                        [inv |-> stack[1].node, node |-> Top.node, section |-> s])
                /\ sections' = IF _is_ignored_section(s) THEN sections
                               ELSE Append(sections, s)
                /\ stack' = Front(stack)
                /\ pc' = IF Len(stack) > 1 THEN pc
                         ELSE IF pc = "root" THEN "h1" ELSE "siblings"
                /\ err' = err
    /\ UNCHANGED <<mode, doc, summary, h1_heading, sibs, tutorial_meta, flatVars, redirectVars, workflowVars>>

\* tutorial.py lines 211-212
ProcessHtmlH1 ==
    /\ mode = "sphinx"
    /\ pc = "h1"
    /\ IF sections = <<>>
       THEN /\ Raise("IndexError")
            /\ UNCHANGED <<h1_heading, sibs>>
       ELSE /\ h1_heading' = Last(Last(sections).headings)
            /\ sibs' = SiblingsOf(doc, RootOf(doc))
            /\ pc' = "siblings"
            /\ UNCHANGED <<err, stack>>
    /\ UNCHANGED <<mode, doc, yielded, sections, summary, tutorial_meta, flatVars, redirectVars, workflowVars>>

\* tutorial.py lines 212-221: the next sibling of the root
ProcessHtmlSibling ==
    /\ mode = "sphinx"
    /\ pc = "siblings"
    /\ sibs # <<>>
    /\ LET sibling == doc[Head(sibs)]
       IN  IF sibling.tag = "div" /\ "section" \notin sibling.classes
           THEN UNCHANGED <<pc, err, stack>>
           ELSE IF ~attrib_id(sibling).ok THEN Raise("KeyError")
           ELSE /\ stack' = <<NewFrame(doc, Head(sibs), <<h1_heading>>)>>
                /\ pc' = "sibling"
                /\ err' = err
    /\ sibs' = Tail(sibs)
    /\ UNCHANGED <<mode, doc, yielded, sections, summary, h1_heading, tutorial_meta, flatVars, redirectVars, workflowVars>>

\* process_html returns
ProcessHtmlReturn ==
    /\ mode = "sphinx"
    /\ pc = "siblings"
    /\ sibs = <<>>
    /\ pc' = "processed"
    /\ UNCHANGED <<mode, err, doc, stack, yielded, sections, summary, h1_heading, sibs, tutorial_meta, flatVars, redirectVars, workflowVars>>

\* Mutant: the summary is set on every section, whatever its level.
_set_summary_on_every_section ==
    /\ mode = "sphinx"
    /\ pc = "processed"
    /\ sections' = [k \in 1..Len(sections) |-> [sections[k] EXCEPT !.content = summary]]
    /\ pc' = "done"
    /\ UNCHANGED <<mode, err, doc, stack, yielded, summary, h1_heading, sibs, tutorial_meta, flatVars, redirectVars, workflowVars>>

\* tutorial.py lines 145-151, the last statement of __init__
_set_summary_on_h1_section ==
    /\ mode = "sphinx"
    /\ pc = "processed"
    /\ sections' = [k \in 1..Len(sections) |->
                       IF header_level(sections[k]) = 1
                       THEN [sections[k] EXCEPT !.content = summary]
                       ELSE sections[k]]
    /\ pc' = "done"
    /\ UNCHANGED <<mode, err, doc, stack, yielded, summary, h1_heading, sibs, tutorial_meta, flatVars, redirectVars, workflowVars>>

InitSphinx ==
    /\ mode = "sphinx"
    /\ pc = "start"
    /\ err = "none"
    /\ \E sh \in Shapes : \E od \in Oddities(sh) : doc = BuildDoc(sh, od)
    /\ stack = <<>>
    /\ yielded = <<>>
    /\ sections = <<>>
    /\ summary = <<>>
    /\ h1_heading = <<>>
    /\ sibs = <<>>
    /\ tutorial_meta = NoMeta
    /\ FlatIdle
    /\ RedirectIdle
    /\ WorkflowIdle

NextSphinx ==
    \/ ProcessHtmlStart
    \/ IterHeading
    \/ IterNested
    \/ IterContent
    \/ IterYield
    \/ ProcessHtmlH1
    \/ ProcessHtmlSibling
    \/ ProcessHtmlReturn
    \/ _set_summary_on_h1_section

SpecSphinx == InitSphinx /\ [][NextSphinx]_vars

-----------------------------------------------------------------------------
(* reducers/utils.py: iter_nbcollection_sections *)

FlatTags == {"h1", "h2", "h3", "p", "div"}

\* The i-th element of a notebook page: a heading or a paragraph of a prose
\* cell, or a code cell (div.jp-CodeMirrorEditor).
FlatElementOf(tag, i) ==
    [ parent   |-> 0,
      tag      |-> tag,
      classes  |-> IF tag = "div" THEN {"jp-CodeMirrorEditor"} ELSE {},
      hasId    |-> tag \in HEADING_TAGS /\ i % 3 # 0,
      id       |-> IF tag \in HEADING_TAGS THEN <<"h", NodeName[i]>> ELSE <<>>,
      text     |-> IF tag \in HEADING_TAGS
                   THEN (IF i % 2 = 0 THEN <<"H", NodeName[i], "PILCROW">>
                         ELSE <<"H", NodeName[i]>>)
                   ELSE IF tag = "div" THEN <<"x", "=", NodeName[i], "NL">>
                   ELSE ContentTextOf(i),
      output   |-> <<>>,
      children |-> <<>> ]

\* A heading without an id attribute, and a paragraph.
UnanchoredHeading(tag, text) ==
    [ parent |-> 0, tag |-> tag, classes |-> {}, hasId |-> FALSE, id |-> <<>>,
      text |-> text, output |-> <<>>, children |-> <<>> ]

Paragraph(text) ==
    [ parent |-> 0, tag |-> "p", classes |-> {}, hasId |-> FALSE, id |-> <<>>,
      text |-> text, output |-> <<>>, children |-> <<>> ]

\* A notebook page whose headings carry no id: "A B", then "A" with the
\* subsection "B".
UnanchoredPage ==
    << UnanchoredHeading("h1", <<"A", " ", "B">>), Paragraph(<<"c", "1">>),
       UnanchoredHeading("h1", <<"A">>), UnanchoredHeading("h2", <<"B">>),
       Paragraph(<<"c", "2">>) >>

ProseCell(children) ==
    [ parent |-> 0, tag |-> "div", classes |-> {"jp-RenderedHTMLCommon"},
      hasId |-> FALSE, id |-> <<>>, text |-> <<>>, output |-> <<>>,
      children |-> children ]

\* The cells of a page: each run of prose elements is one prose cell.
RECURSIVE CellsOf(_, _)
CellsOf(es, run) ==
    IF es = <<>> THEN (IF run = <<>> THEN <<>> ELSE <<ProseCell(run)>>)
    ELSE IF Head(es).tag = "div"
         THEN (IF run = <<>> THEN <<>> ELSE <<ProseCell(run)>>)
              \o <<Head(es)>> \o CellsOf(Tail(es), <<>>)
         ELSE CellsOf(Tail(es), Append(run, Head(es)))

\* utils.py lines 261-271
iter_nbcollection_content_elements(root) ==
    Concat([k \in 1..Len(root) |->
              IF root[k].tag = "div" /\ "jp-RenderedHTMLCommon" \in root[k].classes
              THEN root[k].children
              ELSE <<root[k]>>])

ContentElements == iter_nbcollection_content_elements(root_element)

Walking == mode = "flat" /\ pc = "walk"

\* Mutant: the accumulator is yielded without the content test of line 200.
FlatHeadingYieldsEmpty ==
    /\ Walking
    /\ pos <= Len(ContentElements)
    /\ LET content_element == ContentElements[pos]
           header_id == IF content_element.hasId THEN content_element.id ELSE <<>>
           header_content == IF callbacks.header
                             THEN header_callback(text_content(content_element))
                             ELSE text_content(content_element)
       IN  /\ content_element.tag \in HEADING_TAGS
           /\ out' = IF current_section.headings # <<>>
                     THEN Append(out, current_section)
                     ELSE out
           /\ current_section' = new_section(current_section, content_element.tag,
                                             header_content,
                                             base_url \o <<"#">> \o header_id).result
    /\ pos' = pos + 1
    /\ UNCHANGED <<mode, pc, err, root_element, callbacks, args, derived, sphinxVars, redirectVars, workflowVars>>

\* utils.py lines 196-218: a heading element
FlatHeading ==
    /\ Walking
    /\ pos <= Len(ContentElements)
    /\ LET content_element == ContentElements[pos]
           header_id == IF content_element.hasId THEN content_element.id ELSE <<>>
           header_content == IF callbacks.header
                             THEN header_callback(text_content(content_element))
                             ELSE text_content(content_element)
       IN  /\ content_element.tag \in HEADING_TAGS
           /\ out' = IF current_section.headings # <<>> /\ current_section.content # <<>>
                     THEN Append(out, current_section)
                     ELSE out
           /\ current_section' = new_section(current_section, content_element.tag,
                                             header_content,
                                             base_url \o <<"#">> \o header_id).result
    /\ pos' = pos + 1
    /\ UNCHANGED <<mode, pc, err, root_element, callbacks, args, derived, sphinxVars, redirectVars, workflowVars>>

\* utils.py lines 219-228: any other element.  With a content callback the
\* text is appended at lines 222-224 and again at line 227; without one,
\* line 226 calls get_content(), which lxml elements do not have.
FlatContent ==
    /\ Walking
    /\ pos <= Len(ContentElements)
    /\ LET content_element == ContentElements[pos]
           new_content == clean_content(text_content(content_element))
       IN  /\ content_element.tag \notin HEADING_TAGS
           /\ IF callbacks.content
              THEN /\ current_section' =
                        [current_section EXCEPT
                           !.content = (@ \o <<" ">> \o new_content) \o <<" ">> \o new_content]
                   /\ pos' = pos + 1
                   /\ UNCHANGED <<pc, err>>
              ELSE /\ pc' = "error"
                   /\ err' = "AttributeError"
                   /\ UNCHANGED <<current_section, pos>>
    /\ UNCHANGED <<mode, root_element, callbacks, out, args, derived, sphinxVars, redirectVars, workflowVars>>

\* Mutant: the accumulator is yielded without the test of line 230.
FlatEndAlways ==
    /\ Walking
    /\ pos > Len(ContentElements)
    /\ out' = Append(out, current_section)
    /\ pc' = "done"
    /\ UNCHANGED <<mode, err, root_element, callbacks, pos, current_section, args, derived,
                   sphinxVars, redirectVars, workflowVars>>

\* utils.py lines 230-231: the walk is over
FlatEnd ==
    /\ Walking
    /\ pos > Len(ContentElements)
    /\ out' = IF current_section.headings # <<>> THEN Append(out, current_section) ELSE out
    /\ pc' = "done"
    /\ UNCHANGED <<mode, err, root_element, callbacks, pos, current_section, args, derived,
                   sphinxVars, redirectVars, workflowVars>>

InitFlat ==
    /\ mode = "flat"
    /\ pc = "walk"
    /\ err = "none"
    /\ \/ \E n \in 0..MaxElems : \E tags \in [1..n -> FlatTags] :
             root_element = CellsOf([i \in 1..n |-> FlatElementOf(tags[i], i)], <<>>)
       \/ root_element = CellsOf(UnanchoredPage, <<>>)
    /\ callbacks \in [header : BOOLEAN, content : BOOLEAN]
    /\ pos = 1
    /\ current_section = Section(<<>>, <<>>, <<>>)
    /\ out = <<>>
    /\ args = NoArgs
    /\ derived = NoSection
    /\ SphinxIdle
    /\ RedirectIdle
    /\ WorkflowIdle

NextFlat == FlatHeading \/ FlatContent \/ FlatEnd

SpecFlat == InitFlat /\ [][NextFlat]_vars

-----------------------------------------------------------------------------
(* reducers/utils.py: Section.new_section on its own *)

PathHeading(i) == <<"P", NodeName[i]>>

NewSectionCall ==
    /\ mode = "section"
    /\ pc = "call"
    /\ \E tag \in HEADING_TAGS : \E header \in {<<"n", "e", "w">>, PathHeading(1)} :
          LET url == base_url \o <<"#">> \o header
              r == new_section(current_section, tag, header, url)
          IN  /\ args' = [tag |-> tag, header |-> header, url |-> url]
              /\ current_section' = r.self
              /\ derived' = r.result
    /\ pc' = "returned"
    /\ UNCHANGED <<mode, err, root_element, callbacks, pos, out, sphinxVars, redirectVars, workflowVars>>

InitSection ==
    /\ mode = "section"
    /\ pc = "call"
    /\ err = "none"
    /\ \E l \in 0..MaxPath : \E c \in {<<>>, <<" ", "x">>} :
          current_section = Section(c, [i \in 1..l |-> PathHeading(i)], base_url \o <<"#">>)
    /\ args = NoArgs
    /\ derived = NoSection
    /\ root_element = <<>>
    /\ callbacks = [header |-> FALSE, content |-> FALSE]
    /\ pos = 0
    /\ out = <<>>
    /\ SphinxIdle
    /\ RedirectIdle
    /\ WorkflowIdle

NextSection == NewSectionCall

SpecSection == InitSection /\ [][NextSection]_vars

-----------------------------------------------------------------------------
(* Both sectionizers *)

InitSectionizers == InitSphinx \/ InitFlat

NextSectionizers == NextSphinx \/ NextFlat

SpecSectionizers == InitSectionizers /\ [][NextSectionizers]_vars

-----------------------------------------------------------------------------
(* Properties of the nested sectionizer and of the tutorial reducer *)

\* The section containers that are direct children of container c.
Subsections(d, c) == SelectSeq(Children(d, c), LAMBDA j : IsSectionContainer(d[j]))

\* Depth-first post-order over the section containers below and at c.
RECURSIVE PostOrder(_, _)
PostOrder(d, c) ==
    Concat([k \in 1..Len(Subsections(d, c)) |-> PostOrder(d, Subsections(d, c)[k])]) \o <<c>>

\* The containers whose Sections invocation inv has yielded, in yield order.
YieldedNodes(inv) ==
    LET ys == SelectSeq(yielded, LAMBDA y : y.inv = inv)
    IN  [k \in 1..Len(ys) |-> ys[k].node]

Invocations == { yielded[k].inv : k \in 1..Len(yielded) }

\* No generator is running and none has failed.
BetweenInvocations == mode = "sphinx" /\ stack = <<>> /\ pc \in {"h1", "siblings", "processed", "done"}

\* C1: iter_sphinx_sections yields depth-first and post-order, siblings in
\* document order: for a root [A] with subsections B then C, every section
\* below B, then B, every section below C, then C, then [A]'s own section.
\* What an invocation has yielded is at every moment a prefix of the
\* post-order of its root, and all of it once the invocation has returned.
C1_PostOrder ==
    \A inv \in Invocations :
        /\ IsPrefix(YieldedNodes(inv), PostOrder(doc, inv))
        /\ BetweenInvocations => YieldedNodes(inv) = PostOrder(doc, inv)
        /\ \A k \in 1..Len(yielded) :
              yielded[k].section.url = base_url \o <<"#">> \o doc[yielded[k].node].id

\* A returned invocation on a root with two subsections that each have a
\* subsection of their own.
C1_Witness ==
    /\ mode = "sphinx"
    /\ pc = "h1"
    /\ \E b, c \in SectionContainers(doc) :
          /\ b < c
          /\ doc[b].parent = RootOf(doc)
          /\ doc[c].parent = RootOf(doc)
          /\ Subsections(doc, b) # <<>>
          /\ Subsections(doc, c) # <<>>
    /\ Len(YieldedNodes(RootOf(doc))) = 5

\* C2: the section of the root container of an invocation is the last one
\* that invocation yields: nothing of the same invocation follows it, and a
\* returned invocation ended with it.
C2_RootLast ==
    /\ \A k \in 1..Len(yielded) :
          yielded[k].node = yielded[k].inv =>
             \A j \in (k + 1)..Len(yielded) : yielded[j].inv # yielded[k].inv
    /\ (BetweenInvocations /\ yielded # <<>>) => Last(yielded).node = Last(yielded).inv

\* A returned invocation that yielded nested sections before its root's,
\* the root holding content of its own.
C2_Witness ==
    /\ mode = "sphinx"
    /\ pc = "h1"
    /\ \E k \in 1..Len(yielded) : yielded[k].node # yielded[k].inv
    /\ Last(yielded).node = RootOf(doc)
    /\ Last(yielded).section.content # <<>>

\* C3: every Section either sectionizer yields has header_level equal to
\* the length of its headings, and at least one heading.
C3_HeaderLevel ==
    /\ \A k \in 1..Len(yielded) :
          /\ header_level(yielded[k].section) = Len(yielded[k].section.headings)
          /\ Len(yielded[k].section.headings) >= 1
    /\ \A k \in 1..Len(out) :
          /\ header_level(out[k]) = Len(out[k].headings)
          /\ Len(out[k].headings) >= 1

\* A finished flat walk that yielded sections of different levels.
C3_Witness ==
    /\ mode = "flat"
    /\ pc = "done"
    /\ \E j, k \in 1..Len(out) : header_level(out[j]) = 1 /\ header_level(out[k]) = 2

\* C4: once a ReducedSphinxTutorial is constructed, no heading in the path
\* of any of its sections equals "authors", "keywords" or "summary" when
\* letter case is ignored.
C4_NoMetadataHeadings ==
    (mode = "sphinx" /\ pc = "done") =>
        \A k \in 1..Len(sections) : \A i \in 1..Len(sections[k].headings) :
            \A label \in ignored_headings :
                Lower(sections[k].headings[i]) # Lower(label)

\* A constructed tutorial in which a section of a sibling container was
\* dropped for a heading that is written with capitals.
C4_Witness ==
    /\ mode = "sphinx"
    /\ pc = "done"
    /\ sections # <<>>
    /\ \E k \in 1..Len(yielded) :
          /\ yielded[k].inv # RootOf(doc)
          /\ \E i \in 1..Len(yielded[k].section.headings) :
                /\ yielded[k].section.headings[i] \notin ignored_headings
                /\ Lower(yielded[k].section.headings[i]) \in ignored_headings

\* The Sections the sectionizer yielded that the reducer kept.
KeptSections ==
    LET ys == SelectSeq(yielded, LAMBDA y :
                  \A i \in 1..Len(y.section.headings) :
                      Lower(y.section.headings[i]) \notin ignored_headings)
    IN  [k \in 1..Len(ys) |-> ys[k].section]

\* C5: after the reduction every section of level 1 has the page summary
\* as content, and every deeper section has the content, headings and url
\* the sectionizer produced.
C5_SummaryOnH1 ==
    (mode = "sphinx" /\ pc = "done") =>
        /\ Len(sections) = Len(KeptSections)
        /\ \A k \in 1..Len(sections) :
              /\ sections[k].headings = KeptSections[k].headings
              /\ sections[k].url = KeptSections[k].url
              /\ IF Len(sections[k].headings) = 1
                 THEN sections[k].content = summary
                 ELSE sections[k].content = KeptSections[k].content

\* A constructed tutorial with a summary, a level-1 section, and a deeper
\* section whose own content differs from the summary.
C5_Witness ==
    /\ mode = "sphinx"
    /\ pc = "done"
    /\ summary # <<>>
    /\ \E j, k \in 1..Len(sections) :
          /\ Len(sections[j].headings) = 1
          /\ Len(sections[k].headings) > 1
          /\ sections[k].content # <<>>
          /\ sections[k].content # summary

\* C6: every section yielded for a sibling container has the primary
\* root's own final heading as the first element of its path, and so has
\* level 2 or more, whatever was filtered out of the primary root.
C6_SiblingsUnderRootHeading ==
    \A k \in 1..Len(yielded) : \A r \in 1..Len(yielded) :
        (yielded[k].inv # RootOf(doc) /\ yielded[r].node = RootOf(doc)) =>
            /\ Len(yielded[k].section.headings) >= 2
            /\ yielded[k].section.headings[1] = Last(yielded[r].section.headings)

\* The section containers below and at c.
Subtree(d, c) == { c } \cup { j \in SectionContainers(d) : c \in AncestorsOf(d, j) }

\* C7: iter_sphinx_sections on a container without an id attribute raises
\* (KeyError) and yields no Section for it: no generator body ever runs on
\* such a container, no yielded Section belongs to one or has an empty
\* anchor, and no invocation returns whose tree holds one.
C7_MissingIdFails ==
    /\ \A k \in 1..Len(stack) : doc[stack[k].node].hasId
    /\ \A k \in 1..Len(yielded) :
          /\ doc[yielded[k].node].hasId
          /\ yielded[k].section.url # base_url \o <<"#">>
    /\ BetweenInvocations =>
          \A inv \in Invocations : \A c \in Subtree(doc, inv) : doc[c].hasId
    /\ err = "KeyError" => \E c \in SectionContainers(doc) : ~doc[c].hasId

\* The walk failed on a nested container without an id after it had
\* yielded Sections of other containers.
C7_Witness ==
    /\ mode = "sphinx"
    /\ pc = "error"
    /\ err = "KeyError"
    /\ yielded # <<>>
    /\ \E c \in SectionContainers(doc) : ~doc[c].hasId /\ doc[c].parent # 0

-----------------------------------------------------------------------------
(* Properties of the flat sectionizer and of Section.new_section *)

HeadingPositions == { i \in 1..Len(ContentElements) : ContentElements[i].tag \in HEADING_TAGS }

\* C8: the flat sectionizer yields no section for a page without headings,
\* exactly one for a page with exactly one heading followed by content, and
\* trailing content after the last heading comes out in one final section.
C8_FlatSectionCount ==
    (mode = "flat" /\ pc \in {"done", "error"}) =>
        /\ HeadingPositions = {} => out = <<>>
        /\ \A h \in HeadingPositions :
              (HeadingPositions = {h} /\ h < Len(ContentElements)) =>
                 /\ pc = "done"
                 /\ Len(out) = 1
                 /\ Last(out[1].headings) \in { text_content(ContentElements[h]),
                                               header_callback(text_content(ContentElements[h])) }
                 /\ out[1].content # <<>>

\* C9: new_section with tag hN on a section of level L returns a section
\* with empty content whose path is the current path plus the new heading
\* when N > L, and the first N-1 headings plus the new heading when N <= L;
\* the receiver is left as it was.
C9_NewSection ==
    [][ (mode = "section" /\ pc = "call") =>
          LET N == TagLevel(args'.tag)
              L == Len(current_section.headings)
          IN  /\ derived'.content = <<>>
              /\ derived'.url = args'.url
              /\ N > L => derived'.headings = Append(current_section.headings, args'.header)
              /\ N <= L => derived'.headings =
                              [i \in 1..N |-> IF i < N THEN current_section.headings[i]
                                              ELSE args'.header]
              /\ current_section' = current_section ]_vars

\* A section at level 3 derived from a path of length 5.
C9_Witness ==
    /\ mode = "section"
    /\ pc = "returned"
    /\ Len(current_section.headings) = 5
    /\ args.tag = "h3"
    /\ Len(derived.headings) = 3

-----------------------------------------------------------------------------
(* workflows/indexjupyterbook.py: parse_redirect_url *)

\* Mutant: the matched path is returned as it is, not joined to the source.
parse_redirect_url_unjoined(c, source) ==
    IF re_match(c).ok THEN [ok |-> TRUE, value |-> re_match(c).group]
    ELSE [ok |-> FALSE, value |-> <<>>]

\* indexjupyterbook.py lines 155-161: the URL, or RuntimeError
parse_redirect_url(c, source) ==
    LET m == re_match(c)
    IN  IF m.ok THEN [ok |-> TRUE, value |-> urljoin(source, m.group)]
        ELSE [ok |-> FALSE, value |-> <<>>]

\* The call of parse_redirect_url
ParseRedirectUrl ==
    /\ mode = "redirect"
    /\ pc = "call"
    /\ LET r == parse_redirect_url(meta_content, source_url)
       IN  IF r.ok
           THEN /\ redirect_url' = r.value
                /\ pc' = "returned"
                /\ err' = err
           ELSE /\ redirect_url' = redirect_url
                /\ pc' = "error"
                /\ err' = "RuntimeError"
    /\ UNCHANGED <<mode, meta_content, source_url, sphinxVars, flatVars, workflowVars>>

\* What pages put in the content attribute: a delay, a separator, a key, a path.
Delays == { <<>>, <<"0">>, <<"1", "5">>, <<"x">>, <<" ", "0">> }

Separators == { <<";", " ">>, <<";">>, <<",", " ">> }

Keys == { <<"u", "r", "l", "=">>, <<"U", "R", "L", "=">>, <<>> }

RedirectPaths ==
    { <<>>,
      <<"notebooks", "/", "a.html">>,
      <<"a.html">>,
      <<"/", "a.html">>,
      <<"..", "/", "a.html">>,
      <<".", "/", "notebooks", "/", "..">>,
      <<"https:", "//", "o.org", "/", "b.html">>,
      <<"//", "o.org", "/", "b.html">> }

SourceUrls ==
    { <<"https:", "//", "e.org", "/", "index.html">>,
      <<"https:", "//", "e.org", "/", "book", "/", "index.html">>,
      <<"http:", "//", "e.org", "/", "book", "/">>,
      <<"https:", "//", "e.org">> }

Garbage == <<"g", "a", "r", "b", "a", "g", "e">>

InitRedirect ==
    /\ mode = "redirect"
    /\ pc = "call"
    /\ err = "none"
    /\ meta_content \in { d \o sep \o k \o p :
                            d \in Delays, sep \in Separators, k \in Keys, p \in RedirectPaths }
                        \cup {Garbage}
    /\ source_url \in SourceUrls
    /\ redirect_url = <<>>
    /\ SphinxIdle
    /\ FlatIdle
    /\ WorkflowIdle

NextRedirect == ParseRedirectUrl

SpecRedirect == InitRedirect /\ [][NextRedirect]_vars

\* Content of the form "<delay>; url=<path>": digits, the key, a path.
IsRedirectForm(c, p) ==
    /\ p # <<>>
    /\ \E d \in Delays : d # <<>> /\ (\A i \in 1..Len(d) : d[i] \in Digits) /\ c = d \o UrlKey \o p

IsAbsoluteUrl(u) == Len(u) >= 3 /\ u[1] \in Schemes /\ u[2] = "//" /\ u[3] \notin {"/", "//"}

\* C10: for content "<delay>; url=<path>" parse_redirect_url returns the
\* path resolved against the source URL, an absolute URL ("0; url=notebooks/
\* a.html" on https://e.org/index.html gives https://e.org/notebooks/a.html);
\* for any other content ("garbage") it raises the parse error.
C10_ParseRedirectUrl ==
    (mode = "redirect" /\ pc # "call") =>
        /\ \A p \in RedirectPaths :
              IsRedirectForm(meta_content, p) =>
                 /\ pc = "returned"
                 /\ redirect_url = urljoin(source_url, p)
                 /\ IsAbsoluteUrl(redirect_url)
        /\ (meta_content = <<"0">> \o UrlKey \o <<"notebooks", "/", "a.html">>
              /\ source_url = <<"https:", "//", "e.org", "/", "index.html">>) =>
                 redirect_url = <<"https:", "//", "e.org", "/", "notebooks", "/", "a.html">>
        /\ (\A p \in RedirectPaths : ~IsRedirectForm(meta_content, p)) =>
              /\ pc = "error"
              /\ err = "RuntimeError"
        /\ meta_content = Garbage => err = "RuntimeError"

\* The documented example has been parsed.
C10_Witness ==
    /\ mode = "redirect"
    /\ pc = "returned"
    /\ meta_content = <<"0">> \o UrlKey \o <<"notebooks", "/", "a.html">>
    /\ source_url = <<"https:", "//", "e.org", "/", "index.html">>
    /\ redirect_url = <<"https:", "//", "e.org", "/", "notebooks", "/", "a.html">>

-----------------------------------------------------------------------------
(* workflows/indexjupyterbook.py: detect_redirect *)

MaxMetas == 2

\* An attribute of an element: present with a value, or absent.
Attr(v) == [has |-> TRUE, value |-> v]

NoAttr == [has |-> FALSE, value |-> <<>>]

\* What pages put in http-equiv.
HttpEquivs ==
    { NoAttr,
      Attr(<<"R", "e", "f", "r", "e", "s", "h">>),
      Attr(<<"r", "e", "f", "r", "e", "s", "h">>),
      Attr(<<"c", "o", "n", "t", "e", "n", "t", "-", "t", "y", "p", "e">>) }

\* What pages put in content.
MetaContents ==
    { NoAttr,
      Attr(<<"0">> \o UrlKey \o <<"notebooks", "/", "a.html">>),
      Attr(<<"1", "5">> \o UrlKey \o <<"a.html">>),
      Attr(Garbage) }

MetaElements == [http_equiv : HttpEquivs, content : MetaContents]

Refresh == <<"r", "e", "f", "r", "e", "s", "h">>

\* indexjupyterbook.py lines 116-123: one meta element.  A missing
\* attribute (KeyError) and an unparseable content (RuntimeError) both go
\* on to the next element.
DetectRedirectStep ==
    /\ mode \in {"detect", "homepage"}
    /\ pc = "loop"
    /\ meta_pos <= Len(html_page.metas)
    /\ LET element == html_page.metas[meta_pos]
           r == parse_redirect_url(element.content.value, html_page.url)
       IN  IF ~element.http_equiv.has \/ Lower(element.http_equiv.value) # Refresh
           THEN /\ meta_pos' = meta_pos + 1
                /\ UNCHANGED <<pc, detected>>
           ELSE IF ~element.content.has \/ ~r.ok
           THEN /\ meta_pos' = meta_pos + 1
                /\ UNCHANGED <<pc, detected>>
           ELSE /\ detected' = [isNone |-> FALSE, url |-> r.value]
                /\ pc' = "returned"
                /\ UNCHANGED meta_pos
    /\ UNCHANGED <<mode, err, html_page, sphinxVars, flatVars, redirectVars, recordVars, expireVars, fanoutVars, keywordVars, jbpageVars, homepageVars, cappedVars>>

\* indexjupyterbook.py line 125: return None
DetectRedirectNone ==
    /\ mode \in {"detect", "homepage"}
    /\ pc = "loop"
    /\ meta_pos > Len(html_page.metas)
    /\ detected' = [isNone |-> TRUE, url |-> <<>>]
    /\ pc' = "returned"
    /\ UNCHANGED <<mode, err, html_page, meta_pos, sphinxVars, flatVars, redirectVars, recordVars, expireVars, fanoutVars, keywordVars, jbpageVars, homepageVars, cappedVars>>

InitDetect ==
    /\ mode = "detect"
    /\ pc = "loop"
    /\ err = "none"
    /\ \E n \in 0..MaxMetas : \E ms \in [1..n -> MetaElements] : \E u \in SourceUrls :
          html_page = [url |-> u, metas |-> ms]
    /\ meta_pos = 1
    /\ detected = NotReturned
    /\ SphinxIdle
    /\ FlatIdle
    /\ RedirectIdle
    /\ WorkflowIdleBut("detect")

NextDetect == DetectRedirectStep \/ DetectRedirectNone

SpecDetect == InitDetect /\ [][NextDetect]_vars

\* The meta elements that are refresh markers.
RefreshMarkers(page) ==
    { k \in 1..Len(page.metas) :
        page.metas[k].http_equiv.has /\ Lower(page.metas[k].http_equiv.value) = Refresh }

\* A refresh marker whose content is not of the form "<delay>; url=<path>".
IsMalformedMarker(m) ==
    m.content.has /\ \A p \in RedirectPaths : ~IsRedirectForm(m.content.value, p)

\* C11: detect_redirect fails with a parse error when the page's refresh
\* marker (the first one, which the detector reads) has a content that does
\* not match "<delay>; url=<path>", and returns None when the page has no
\* refresh marker.
C11_DetectRedirect ==
    (mode = "detect" /\ pc # "loop") =>
        /\ \A k \in RefreshMarkers(html_page) :
              ((\A j \in RefreshMarkers(html_page) : k <= j)
                  /\ IsMalformedMarker(html_page.metas[k]))
              => (pc = "error" /\ err = "RuntimeError")
        /\ RefreshMarkers(html_page) = {} => (pc = "returned" /\ detected.isNone)

-----------------------------------------------------------------------------
(* algolia/records.py: TutorialRecord.from_section *)

MaxRecords == 2

\* generate_index_epoch(): one value per indexing run
Epochs == {"epoch1", "epoch2"}

RecordUrls ==
    { <<"https://x/y.html", "#", "s", "1">>,
      <<"https://x/", "y", ".html", "#", "s", "1">>,
      <<"https://x/", "Y", ".html", "#", "S", "1">>,
      <<"https://x/y.html", "#", "s", "2">> }

RecordHeadings ==
    { <<>>, << <<"A">> >>, << <<"A">>, <<"B">> >>, << <<"A", " ", "B">> >> }

RecordSections ==
    { Section(c, h, u) : c \in {<<>>, <<" ", "x">>}, h \in RecordHeadings, u \in RecordUrls }

\* records.py lines 293-322: the fields of the record that come from the section
from_section(section, index_epoch) ==
    [ objectID    |-> compute_object_id_for_section(section),
      index_epoch |-> index_epoch,
      url         |-> section.url,
      importance  |-> header_level(section),
      content     |-> section.content,
      headings    |-> section.headings ]

\* One record is made of one of the sections, in some indexing run.
FromSection ==
    /\ mode = "record"
    /\ pc = "records"
    /\ Len(records) < MaxRecords
    /\ \E k \in 1..Len(in_sections) : \E e \in Epochs :
          records' = Append(records, from_section(in_sections[k], e))
    /\ UNCHANGED <<mode, pc, err, in_sections, sphinxVars, flatVars, redirectVars, detectVars, expireVars, fanoutVars, keywordVars, jbpageVars, homepageVars, cappedVars>>

InitRecords ==
    /\ mode = "record"
    /\ pc = "records"
    /\ err = "none"
    /\ in_sections \in RecordSections \X RecordSections
    /\ records = <<>>
    /\ SphinxIdle
    /\ FlatIdle
    /\ RedirectIdle
    /\ WorkflowIdleBut("record")

NextRecords == FromSection

SpecRecords == InitRecords /\ [][NextRecords]_vars

\* Two texts are the same string (whatever tokens spell them).
SameText(a, b) == encode(a) = encode(b)

SameHeadings(g, h) ==
    Len(g) = Len(h) /\ \A k \in 1..Len(g) : SameText(g[k], h[k])

\* C12: two sections whose URLs are equal ignoring letter case and whose
\* heading paths are equal get the same objectID, whatever their content
\* and whichever indexing run makes the record.
C12_ObjectIdDeterministic ==
    mode = "record" =>
        \A i, j \in 1..Len(records) :
            (SameText(Lower(records[i].url), Lower(records[j].url))
               /\ SameHeadings(records[i].headings, records[j].headings))
            => records[i].objectID = records[j].objectID

\* Records of two sections that differ in letter case of the URL, in content
\* and in indexing run share an objectID.
C12_Witness ==
    /\ mode = "record"
    /\ Len(records) = 2
    /\ records[1].url # records[2].url
    /\ Lower(records[1].url) # records[1].url
    /\ SameText(Lower(records[1].url), Lower(records[2].url))
    /\ records[1].headings = records[2].headings
    /\ records[1].headings # <<>>
    /\ records[1].content # records[2].content
    /\ records[1].index_epoch # records[2].index_epoch
    /\ records[1].objectID = records[2].objectID

\* The sections a sectionizer has emitted for the page.
Emitted ==
    IF mode = "flat" THEN out
    ELSE IF mode = "sphinx" THEN [k \in 1..Len(yielded) |-> yielded[k].section]
    ELSE <<>>

\* C13: among the sections emitted for one page by either sectionizer, two
\* sections that differ in lowercased URL or in heading path never get the
\* same objectID.
C13_ObjectIdUnique ==
    \A i, j \in 1..Len(Emitted) :
        (~SameText(Lower(Emitted[i].url), Lower(Emitted[j].url))
           \/ ~SameHeadings(Emitted[i].headings, Emitted[j].headings))
        => compute_object_id_for_section(Emitted[i]) # compute_object_id_for_section(Emitted[j])

-----------------------------------------------------------------------------
(* workflows/expirerecords.py: expire_old_records *)

MaxObjects == 3

RootUrls == {"https://x/", "https://z/"}

\* The objects an index can hold: one per objectID.
IndexObjects ==
    { [objectID |-> k, root_url |-> u, index_epoch |-> e] :
        k \in 1..MaxObjects, u \in RootUrls, e \in Epochs }

Indexes ==
    { objs \in SUBSET IndexObjects :
        \A a, b \in objs : a.objectID = b.objectID => a = b }

\* A set as a sequence, in objectID order (the order of a browse).
RECURSIVE InOrder(_)
InOrder(objs) ==
    IF objs = {} THEN <<>>
    ELSE LET first == CHOOSE a \in objs : \A b \in objs : a.objectID <= b.objectID
         IN  <<first>> \o InOrder(objs \ {first})

\* expirerecords.py lines 25-29: root_url:<url> AND NOT root_url:<url>
Filters(root_url, index_epoch) ==
    [ field |-> "root_url", value |-> root_url,
      not_field |-> "root_url", not_value |-> root_url ]

\* An object satisfies "field:value AND NOT not_field:not_value".
MatchesFilters(obj, f) == obj[f.field] = f.value /\ ~(obj[f.not_field] = f.not_value)

\* attributesToRetrieve (objectID always comes back)
Retrieved(obj) ==
    [ fields |-> {"objectID", "root_url", "index_epoch"},
      objectID |-> obj.objectID, root_url |-> obj.root_url, index_epoch |-> obj.index_epoch,
      surrogateKey |-> "" ]

\* The empty dict that MockAlgoliaIndex.browse_objects_async yields.
EmptyHit ==
    [fields |-> {}, objectID |-> 0, root_url |-> "", index_epoch |-> "", surrogateKey |-> ""]

\* expirerecords.py lines 25-37 with client.py lines 140-149: the browse
ExpireBrowse ==
    /\ mode = "expire"
    /\ pc = "browse"
    /\ LET f == Filters(expire_args.root_url, expire_args.index_epoch)
       IN  hits' = IF algolia_index.kind = "mock"
                   THEN [k \in 1..5 |-> EmptyHit]
                   ELSE InOrder({ Retrieved(obj) : obj \in { o \in algolia_index.objects :
                                                               MatchesFilters(o, f) } })
    /\ pc' = "loop"
    /\ UNCHANGED <<mode, err, algolia_index, expire_args, old_object_ids,
                   sphinxVars, flatVars, redirectVars, detectVars, recordVars, fanoutVars, keywordVars, jbpageVars, homepageVars, cappedVars>>

\* expirerecords.py lines 37-47: one browsed object.  r["baseUrl"] and
\* r["surrogateKey"] are keys no browsed object has.
ExpireLoopStep ==
    /\ mode = "expire"
    /\ pc = "loop"
    /\ hits # <<>>
    /\ LET r == Head(hits)
           raises == \/ "root_url" \notin r.fields
                     \/ (r.root_url # expire_args.root_url /\ "baseUrl" \notin r.fields)
                     \/ (r.root_url = expire_args.root_url /\ "surrogateKey" \notin r.fields)
           skipped == \/ r.root_url # expire_args.root_url
                      \/ r.surrogateKey = expire_args.index_epoch
       IN  IF raises
           THEN /\ pc' = "error"
                /\ err' = "KeyError"
                /\ UNCHANGED <<hits, old_object_ids>>
           ELSE /\ hits' = Tail(hits)
                /\ old_object_ids' = IF skipped THEN old_object_ids
                                     ELSE Append(old_object_ids, r.objectID)
                /\ UNCHANGED <<pc, err>>
    /\ UNCHANGED <<mode, algolia_index, expire_args,
                   sphinxVars, flatVars, redirectVars, detectVars, recordVars, fanoutVars, keywordVars, jbpageVars, homepageVars, cappedVars>>

\* Mutant: every object of the index is deleted, not the collected ones.
ExpireDeleteAll ==
    /\ mode = "expire"
    /\ pc = "loop"
    /\ hits = <<>>
    /\ algolia_index' = [algolia_index EXCEPT !.objects = {}]
    /\ pc' = "returned"
    /\ UNCHANGED <<mode, err, expire_args, hits, old_object_ids,
                   sphinxVars, flatVars, redirectVars, detectVars, recordVars, fanoutVars, keywordVars, jbpageVars, homepageVars, cappedVars>>

\* expirerecords.py lines 49-58: delete what was collected, and return
ExpireDelete ==
    /\ mode = "expire"
    /\ pc = "loop"
    /\ hits = <<>>
    /\ algolia_index' =
          [algolia_index EXCEPT
             !.objects = IF algolia_index.kind = "mock" THEN @
                         ELSE { o \in @ : \A k \in 1..Len(old_object_ids) :
                                             o.objectID # old_object_ids[k] }]
    /\ pc' = "returned"
    /\ UNCHANGED <<mode, err, expire_args, hits, old_object_ids,
                   sphinxVars, flatVars, redirectVars, detectVars, recordVars, fanoutVars, keywordVars, jbpageVars, homepageVars, cappedVars>>

InitExpire ==
    /\ mode = "expire"
    /\ pc = "browse"
    /\ err = "none"
    /\ \E kind \in {"algolia", "mock"} : \E objs \in Indexes :
          /\ kind = "mock" => objs = {}
          /\ algolia_index = [kind |-> kind, objects |-> objs]
    /\ \E u \in RootUrls : \E e \in Epochs :
          expire_args = [root_url |-> u, index_epoch |-> e]
    /\ hits = <<>>
    /\ old_object_ids = <<>>
    /\ SphinxIdle
    /\ FlatIdle
    /\ RedirectIdle
    /\ WorkflowIdleBut("expire")

NextExpire == ExpireBrowse \/ ExpireLoopStep \/ ExpireDelete

SpecExpire == InitExpire /\ [][NextExpire]_vars

\* C14: after expire_old_records(root_url, index_epoch) completes, every
\* record of the index whose root_url is the given one and whose index_epoch
\* differs from the given one has been deleted.
C14_OldRecordsExpired ==
    (mode = "expire" /\ pc = "returned" /\ algolia_index.kind = "algolia") =>
        \A o \in algolia_index.objects :
            o.root_url = expire_args.root_url => o.index_epoch = expire_args.index_epoch

-----------------------------------------------------------------------------
(* cli/index.py: run_index_tutorial_site *)

MaxPages == 3

\* What indexing a page meets: nothing, an error of the reduction (such as
\* the KeyError of a container without id), or an error of the save.
PageKinds == {"good", "reduction_error", "indexing_error"}

\* index.py lines 129-145: one task per HTML file, handed to gather
FanoutGather ==
    /\ mode = "fanout"
    /\ pc = "start"
    /\ tasks' = [p \in 1..Len(site) |-> "scheduled"]
    /\ pc' = "gather"
    /\ UNCHANGED <<mode, err, site, sphinxVars, flatVars, redirectVars,
                   detectVars, recordVars, expireVars, keywordVars, jbpageVars, homepageVars, cappedVars>>

\* A page's task reduces its page: synchronous, up to the await of the save.
\* The event loop starts the tasks in the order gather was given them.
TaskReduce(p) ==
    /\ mode = "fanout"
    /\ pc = "gather"
    /\ tasks[p] = "scheduled"
    /\ \A q \in 1..(p - 1) : tasks[q] # "scheduled"
    /\ tasks' = [tasks EXCEPT ![p] = IF site[p] = "reduction_error" THEN "failed"
                                     ELSE "saving"]
    /\ UNCHANGED <<mode, pc, err, site, sphinxVars, flatVars, redirectVars,
                   detectVars, recordVars, expireVars, keywordVars, jbpageVars, homepageVars, cappedVars>>

\* The save of a page's records completes, and with it the task.
TaskSave(p) ==
    /\ mode = "fanout"
    /\ pc = "gather"
    /\ tasks[p] = "saving"
    /\ tasks' = [tasks EXCEPT ![p] = IF site[p] = "indexing_error" THEN "failed"
                                     ELSE "saved"]
    /\ UNCHANGED <<mode, pc, err, site, sphinxVars, flatVars, redirectVars,
                   detectVars, recordVars, expireVars, keywordVars, jbpageVars, homepageVars, cappedVars>>

\* index.py line 146: gather(*tasks) without return_exceptions hands the
\* first exception to the awaiting coroutine, which leaves both "async
\* with" blocks; run_until_complete (line 98) then stops the event loop, and
\* the tasks that have not finished never run again.  The exception reaches
\* the awaiting coroutine after the first step of every task.
GatherRaise ==
    /\ mode = "fanout"
    /\ pc = "gather"
    /\ \E p \in 1..Len(tasks) : tasks[p] = "failed"
    /\ \A p \in 1..Len(tasks) : tasks[p] # "scheduled"
    /\ pc' = "raised"
    /\ err' = "Exception"
    /\ UNCHANGED <<mode, site, tasks, sphinxVars, flatVars, redirectVars,
                   detectVars, recordVars, expireVars, keywordVars, jbpageVars, homepageVars, cappedVars>>

\* index.py line 146: every task is done
GatherReturn ==
    /\ mode = "fanout"
    /\ pc = "gather"
    /\ \A p \in 1..Len(tasks) : tasks[p] = "saved"
    /\ pc' = "returned"
    /\ UNCHANGED <<mode, err, site, tasks, sphinxVars, flatVars, redirectVars,
                   detectVars, recordVars, expireVars, keywordVars, jbpageVars, homepageVars, cappedVars>>

InitFanout ==
    /\ mode = "fanout"
    /\ pc = "start"
    /\ err = "none"
    /\ \E n \in 0..MaxPages : site \in [1..n -> PageKinds]
    /\ tasks = <<>>
    /\ SphinxIdle
    /\ FlatIdle
    /\ RedirectIdle
    /\ WorkflowIdleBut("fanout")

NextFanout ==
    \/ FanoutGather
    \/ \E p \in 1..Len(site) : TaskReduce(p)
    \/ \E p \in 1..Len(site) : TaskSave(p)
    \/ GatherRaise
    \/ GatherReturn

SpecFanout == InitFanout /\ [][NextFanout]_vars

\* C15: when several pages are indexed in one fan-out run, an error in one
\* page's task does not prevent the tasks of the other pages from completing
\* and saving their records: once the run is over, every page that meets no
\* error of its own has been saved.
C15_FailuresDoNotCascade ==
    (mode = "fanout" /\ pc \in {"raised", "returned"}) =>
        \A p \in 1..Len(site) : site[p] = "good" => tasks[p] = "saved"

-----------------------------------------------------------------------------
(* keywords.py: KeywordDb *)

MaxKeywords == 3

\* A keyword table in the order of the YAML file: the canonical keyword and
\* its alternate forms.
Entry(keyword, alternates) == [keyword |-> keyword, alternates |-> alternates]

KeywordTables ==
    [ astropy_package |->
        << Entry(<<"astroquery">>, {}),
           Entry(<<"coordinates">>, { <<"astropy.coordinates">> }) >>,
      python_package |->
        << Entry(<<"n", "u", "m", "p", "y">>, {}),
           Entry(<<"I", "P", "y", "t", "h", "o", "n">>, { <<"i", "p", "y", "t", "h", "o", "n">> }) >>,
      task |->
        << Entry(<<"contour plots">>, {}),
           Entry(<<"object-oriented programming">>, { <<"o", "o", "p">>, <<"classes">> }) >>,
      science |->
        << Entry(<<"astrodynamics">>, {}),
           Entry(<<"x-ray astronomy">>, {}),
           Entry(<<"extinction">>, {}) >> ]

Groups == DOMAIN KeywordTables

\* Keywords as tutorial pages write them.
InputKeywords ==
    { <<"astroquery">>,
      <<"astropy.coordinates">>,
      <<"N", "u", "m", "P", "y">>,
      <<" ", "n", "u", "m", "p", "y", "NL">>,
      <<"I", "P", "y", "t", "h", "o", "n">>,
      <<"contour plots">>,
      <<"O", "O", "P", " ">>,
      <<"extinction">> }

\* table.keys()
TableKeys(table) == { table[k].keyword : k \in 1..Len(table) }

\* keywords.py lines 142-144: the keywords whose alternates hold the input,
\* in table order
AlternateMatches(table, input_keyword) ==
    LET hit == SelectSeq([k \in 1..Len(table) |-> k],
                         LAMBDA k : input_keyword \in table[k].alternates)
    IN  [j \in 1..Len(hit) |-> table[hit[j]].keyword]

\* Mutant: an alternate form is passed on as it is.
KeywordStepEcho ==
    /\ mode = "keywords"
    /\ pc = "loop"
    /\ kw_pos <= Len(input_keywords)
    /\ LET table == KeywordTables[keyword_call.group]
           input_keyword == input_keywords[kw_pos]
       IN  output_keywords' =
              IF input_keyword \in TableKeys(table)
              THEN Append(output_keywords, input_keyword)
              ELSE IF AlternateMatches(table, input_keyword) # <<>>
                   THEN Append(output_keywords, input_keyword)
                   ELSE output_keywords
    /\ kw_pos' = kw_pos + 1
    /\ UNCHANGED <<mode, pc, err, keyword_call, input_keywords, sphinxVars, flatVars,
                   redirectVars, detectVars, recordVars, expireVars, fanoutVars, jbpageVars, homepageVars, cappedVars>>

\* keywords.py line 132: the inputs lowercased and stripped
KeywordNormalise ==
    /\ mode = "keywords"
    /\ pc = "call"
    /\ input_keywords' = [k \in 1..Len(keyword_call.keywords) |->
                            Strip(Lower(keyword_call.keywords[k]))]
    /\ output_keywords' = <<>>
    /\ kw_pos' = 1
    /\ pc' = "loop"
    /\ UNCHANGED <<mode, err, keyword_call, sphinxVars, flatVars,
                   redirectVars, detectVars, recordVars, expireVars, fanoutVars, jbpageVars, homepageVars, cappedVars>>

\* keywords.py lines 136-144: one input keyword
KeywordStep ==
    /\ mode = "keywords"
    /\ pc = "loop"
    /\ kw_pos <= Len(input_keywords)
    /\ LET table == KeywordTables[keyword_call.group]
           input_keyword == input_keywords[kw_pos]
       IN  output_keywords' =
              IF input_keyword \in TableKeys(table)
              THEN Append(output_keywords, input_keyword)
              ELSE output_keywords \o AlternateMatches(table, input_keyword)
    /\ kw_pos' = kw_pos + 1
    /\ UNCHANGED <<mode, pc, err, keyword_call, input_keywords, sphinxVars, flatVars,
                   redirectVars, detectVars, recordVars, expireVars, fanoutVars, jbpageVars, homepageVars, cappedVars>>

\* keywords.py line 146
KeywordReturn ==
    /\ mode = "keywords"
    /\ pc = "loop"
    /\ kw_pos > Len(input_keywords)
    /\ pc' = "returned"
    /\ UNCHANGED <<mode, err, keywordVars, sphinxVars, flatVars,
                   redirectVars, detectVars, recordVars, expireVars, fanoutVars, jbpageVars, homepageVars, cappedVars>>

InitKeywords ==
    /\ mode = "keywords"
    /\ pc = "call"
    /\ err = "none"
    /\ \E g \in Groups : \E n \in 0..MaxKeywords : \E ks \in [1..n -> InputKeywords] :
          keyword_call = [group |-> g, keywords |-> ks]
    /\ input_keywords = <<>>
    /\ kw_pos = 0
    /\ output_keywords = <<>>
    /\ SphinxIdle
    /\ FlatIdle
    /\ RedirectIdle
    /\ WorkflowIdleBut("keywords")

NextKeywords == KeywordNormalise \/ KeywordStep \/ KeywordReturn

SpecKeywords == InitKeywords /\ [][NextKeywords]_vars

\* The canonical keywords of a group that an input keyword stands for: those
\* that its lowercased, trimmed text equals or whose alternates list it.
CanonicalOf(g, k) ==
    LET n == Strip(Lower(k))
        entries == { KeywordTables[g][i] : i \in 1..Len(KeywordTables[g]) }
    IN  { e.keyword : e \in { x \in entries : x.keyword = n \/ n \in x.alternates } }

\* C16: for each keyword group the classifier returns, in input order, the
\* canonical keyword of the group for every input keyword that (lowercased
\* and trimmed) is a canonical keyword of the group or one of its alternate
\* forms, and nothing for any other input; every returned value is a
\* canonical keyword of the group.
C16_KeywordClassifier ==
    (mode = "keywords" /\ pc = "returned") =>
        LET g == keyword_call.group
            matched == SelectSeq(keyword_call.keywords, LAMBDA k : CanonicalOf(g, k) # {})
        IN  /\ Len(output_keywords) = Len(matched)
            /\ \A j \in 1..Len(matched) : CanonicalOf(g, matched[j]) = {output_keywords[j]}
            /\ \A j \in 1..Len(output_keywords) :
                  output_keywords[j] \in TableKeys(KeywordTables[g])

\* The task group has classified "OOP " (an alternate, in capitals, with a
\* trailing blank) after a canonical keyword, and dropped a foreign keyword.
C16_Witness ==
    /\ mode = "keywords"
    /\ pc = "returned"
    /\ keyword_call = [group |-> "task",
                       keywords |-> << <<"astroquery">>, <<"contour plots">>, <<"O", "O", "P", " ">> >>]
    /\ output_keywords = << <<"contour plots">>, <<"object-oriented programming">> >>

-----------------------------------------------------------------------------
(* reducers/jupyterbook.py: JupyterBookPage *)

MaxLinks == 2

\* What an accessor gave: a value, None, or an exception.
Value(v) == [called |-> TRUE, raised |-> "none", isNone |-> FALSE, value |-> v]

None == [called |-> TRUE, raised |-> "none", isNone |-> TRUE, value |-> <<>>]

Raised(e) == [called |-> TRUE, raised |-> e, isNone |-> FALSE, value |-> <<>>]

NotCalled == [called |-> FALSE, raised |-> "none", isNone |-> FALSE, value |-> <<>>]

Accessors == {"title", "logo_url", "first_paragraph", "github_repository"}

\* JupyterBookPage._clean_content
_clean_content(x) ==
    LET x1 == Replace(x, <<"BS", "n">>, <<" ">>)
        x2 == Replace(x1, <<"NL">>, <<" ">>)
        x3 == Replace(x2, <<"BS">>, <<" ">>)
    IN  Strip(x3)

GitHub == <<"https:", "//", "github.com">>

\* str.startswith
StartsWith(x, prefix) == Len(x) >= Len(prefix) /\ SubSeq(x, 1, Len(prefix)) = prefix

\* What each selector finds on a page, in document order.
SiteTitles == { <<>>, << <<" ", "G", "u", "i", "d", "e", "NL">> >> }

Logos == { <<>>, << [src |-> Attr(<<"_static", "/", "logo.png">>)] >>, << [src |-> NoAttr] >> }

MainParagraphs ==
    { <<>>,
      << <<"NL", "F", "i", "r", "s", "t", "BS", "n", "p", " ">> >>,
      << <<"F", "i", "r", "s", "t">>, <<"S", "e", "c", "o", "n", "d">> >> }

ExternalLinks ==
    { [href |-> NoAttr],
      [href |-> Attr(<<"https:", "//", "gitlab.com", "/", "x">>)],
      [href |-> Attr(GitHub \o <<"/", "astropy">>)] }

\* jupyterbook.py lines 31-38
title(page) ==
    IF page.site_title = <<>> THEN None
    ELSE Value(page.site_title[1])

\* jupyterbook.py lines 40-47
logo_url(page) ==
    IF page.logo = <<>> THEN None
    ELSE IF ~page.logo[1].src.has THEN Raised("KeyError")
    ELSE Value(urljoin(page.url, page.logo[1].src.value))

\* jupyterbook.py lines 49-59
first_paragraph(page) ==
    IF page.paragraphs = <<>> THEN None
    ELSE Value(_clean_content(page.paragraphs[1]))

\* jupyterbook.py lines 61-70: the first link to GitHub; a link before it
\* that has no href raises KeyError
RECURSIVE github_repository_of(_)
github_repository_of(elements) ==
    IF elements = <<>> THEN None
    ELSE IF ~Head(elements).href.has THEN Raised("KeyError")
    ELSE IF StartsWith(Head(elements).href.value, GitHub) THEN Value(Head(elements).href.value)
    ELSE github_repository_of(Tail(elements))

github_repository(page) == github_repository_of(page.external_links)

\* One accessor of the page is read.
ReadAccessor(a) ==
    /\ mode = "jbpage"
    /\ pc = "ready"
    /\ ~accessed[a].called
    /\ accessed' = [accessed EXCEPT ![a] =
                      IF a = "title" THEN title(book_page)
                      ELSE IF a = "logo_url" THEN logo_url(book_page)
                      ELSE IF a = "first_paragraph" THEN first_paragraph(book_page)
                      ELSE github_repository(book_page)]
    /\ UNCHANGED <<mode, pc, err, book_page, sphinxVars, flatVars, redirectVars,
                   detectVars, recordVars, expireVars, fanoutVars, keywordVars, homepageVars, cappedVars>>

InitJbPage ==
    /\ mode = "jbpage"
    /\ pc = "ready"
    /\ err = "none"
    /\ \E t \in SiteTitles : \E l \in Logos : \E ps \in MainParagraphs :
       \E n \in 0..MaxLinks : \E links \in [1..n -> ExternalLinks] :
          book_page = [ url |-> <<"https:", "//", "e.org", "/", "book", "/", "index.html">>,
                        site_title |-> t, logo |-> l, paragraphs |-> ps,
                        external_links |-> links ]
    /\ accessed = [a \in Accessors |-> NotCalled]
    /\ SphinxIdle
    /\ FlatIdle
    /\ RedirectIdle
    /\ WorkflowIdleBut("jbpage")

NextJbPage == \E a \in Accessors : ReadAccessor(a)

SpecJbPage == InitJbPage /\ [][NextJbPage]_vars

\* The selector of an accessor matches no element of the page.
NoMatch(page, a) ==
    IF a = "title" THEN page.site_title = <<>>
    ELSE IF a = "logo_url" THEN page.logo = <<>>
    ELSE IF a = "first_paragraph" THEN page.paragraphs = <<>>
    ELSE page.external_links = <<>>

\* The page-metadata accessors of both reducers
InitAccessors == InitJbPage \/ InitSphinx

NextAccessors == NextJbPage \/ NextSphinx

SpecAccessors == InitAccessors /\ [][NextAccessors]_vars

\* What the metadata selectors of the tutorial reducer match on a page.
MatchedH1(d) == { j \in 1..Len(d) : d[j].tag = "h1" }

MatchedAuthors(d) == { j \in 1..Len(d) : d[j].tag = "p" /\ InSection(d, j) }

MatchedById(d, id) ==
    { j \in 1..Len(d) : d[j].tag = "p" /\ \E c \in AncestorsOf(d, j) : d[c].hasId /\ d[c].id = id }

MatchedImages(d) == { j \in 1..Len(d) : d[j].tag = "img" /\ InSection(d, j) }

\* C17: every page-metadata accessor (JupyterBookPage title, logo_url,
\* first_paragraph, github_repository; ReducedSphinxTutorial h1, authors,
\* keywords, summary, images) gives an empty or absent value, and does not
\* raise, when its selector matches no element of the page.
C17_MissingMetadata ==
    /\ mode = "jbpage" =>
          \A a \in Accessors : (accessed[a].called /\ NoMatch(book_page, a)) => accessed[a] = None
    /\ (mode = "sphinx" /\ pc # "start") =>
          /\ MatchedH1(doc) = {} => tutorial_meta.h1 = <<>>
          /\ MatchedAuthors(doc) = {} => tutorial_meta.authors = <<>>
          /\ MatchedById(doc, <<"k","e","y","w","o","r","d","s">>) = {} => tutorial_meta.keywords = <<>>
          /\ MatchedById(doc, <<"s","u","m","m","a","r","y">>) = {} => summary = <<>>
          /\ MatchedImages(doc) = {} => (tutorial_meta.images = <<>> /\ err # "KeyError: 'src'")
          /\ (err = "IndexError" /\ yielded = <<>>) => SectionContainers(doc) = {}

\* A tutorial without h1, author paragraph, keywords, summary and images
\* has been reduced to sections, its metadata left empty.
C17_Witness ==
    /\ mode = "sphinx"
    /\ pc = "done"
    /\ sections # <<>>
    /\ MatchedH1(doc) = {}
    /\ MatchedAuthors(doc) = {}
    /\ MatchedImages(doc) = {}
    /\ tutorial_meta = NoMeta
    /\ summary = <<>>

\* The heading element nearest before position p of the walk (0: none).
LastHeadingBefore(p) ==
    LET hs == { j \in 1..(p - 1) : ContentElements[j].tag \in HEADING_TAGS }
    IN  IF hs = {} THEN 0 ELSE CHOOSE j \in hs : \A k \in hs : k <= j

\* The texts of the content elements after that heading, each after one space.
ContentSince(p) ==
    LET from == LastHeadingBefore(p)
    IN  Concat([k \in 1..(p - 1 - from) |->
                  <<" ">> \o (IF callbacks.content
                              THEN clean_content(text_content(ContentElements[from + k]))
                              ELSE text_content(ContentElements[from + k]))])

\* C18: in iter_nbcollection_sections every non-heading element adds its
\* (optionally cleaned) text to the current section exactly once, after one
\* space, with and without a content callback: the content of the current
\* section is the texts of the elements since its heading, in document
\* order, each preceded by one space, and the walk does not fail on them.
C18_ContentAppendedOnce ==
    mode = "flat" =>
        /\ err # "AttributeError"
        /\ pc = "walk" => current_section.content = ContentSince(pos)

\* The heading text of the element at position j of the walk, as it enters a
\* heading path.
HeaderOf(j) ==
    IF callbacks.header THEN header_callback(text_content(ContentElements[j]))
    ELSE text_content(ContentElements[j])

\* The headings followed directly by another heading.
EmptyBodied ==
    { j \in 1..(Len(ContentElements) - 1) :
        /\ ContentElements[j].tag \in HEADING_TAGS
        /\ ContentElements[j + 1].tag \in HEADING_TAGS }

\* The walk is at a heading element and takes it.
AtHeading ==
    /\ Walking
    /\ pos <= Len(ContentElements)
    /\ ContentElements[pos].tag \in HEADING_TAGS
    /\ pos' = pos + 1

OwnContentChildren(d, c) ==
    SelectSeq(Children(d, c),
              LAMBDA j : /\ d[j].tag \notin HEADING_TAGS
                         /\ ~IsSectionContainer(d[j])
                         /\ ~RaisesValueError(d[j]))

\* The text extracted from each of them, in document order.
OwnTexts(d, c) ==
    [k \in 1..Len(OwnContentChildren(d, c)) |->
        clean_content(text_content(drop_cell_outputs(d[OwnContentChildren(d, c)[k]])))]

\* C20: the content of every section yielded by iter_sphinx_sections is the
\* text of the container's own direct children that are neither headings nor
\* nested section containers, in document order, joined by a blank line; it
\* holds no text of a nested section container.
C20_OwnContentOnly ==
    mode = "sphinx" =>
        \A k \in 1..Len(yielded) :
            yielded[k].section.content = Join(<<"NL", "NL">>, OwnTexts(doc, yielded[k].node))

\* A finished page on which a container with content of its own and a nested
\* container, itself yielded with its heading, has been yielded.
C20_Witness ==
    /\ mode = "sphinx"
    /\ pc = "done"
    /\ \E k \in 1..Len(yielded) :
          /\ OwnTexts(doc, yielded[k].node) # <<>>
          /\ yielded[k].section.content # <<>>
          /\ \E n \in 1..Len(yielded) :
                /\ doc[yielded[n].node].parent = yielded[k].node
                /\ yielded[n].section.headings # yielded[k].section.headings

\* The heading elements that are direct children of container c.
HeadingsOf(d, c) == { j \in 1..Len(d) : d[j].parent = c /\ d[j].tag \in HEADING_TAGS }

\* The generator is at a heading element.
AtSphinxHeading ==
    /\ Iterating
    /\ Top.i <= Len(TopChildren)
    /\ doc[TopChildren[Top.i]].tag \in HEADING_TAGS

\* C21: a heading element never by itself makes iter_sphinx_sections emit a
\* section.  No step on a heading yields; what an invocation has yielded is
\* one section per section container of its root's tree, never two for one
\* container, and once the invocation has returned there are as many
\* sections as containers, whatever the number of headings they hold.
C21_OneSectionPerContainer ==
    /\ [][AtSphinxHeading => yielded' = yielded]_vars
    /\ [](mode = "sphinx" =>
            \A inv \in Invocations :
                /\ \A k \in 1..Len(YieldedNodes(inv)) : YieldedNodes(inv)[k] \in Subtree(doc, inv)
                /\ \A k, n \in 1..Len(YieldedNodes(inv)) :
                      YieldedNodes(inv)[k] = YieldedNodes(inv)[n] => k = n
                /\ BetweenInvocations =>
                      Len(YieldedNodes(inv)) = Cardinality(Subtree(doc, inv)))

\* A returned invocation on a root that holds two headings and a nested
\* container: two sections for three headings.
C21_Witness ==
    /\ mode = "sphinx"
    /\ pc = "h1"
    /\ Cardinality(HeadingsOf(doc, RootOf(doc))) = 2
    /\ Cardinality(Subtree(doc, RootOf(doc))) = 2
    /\ Len(YieldedNodes(RootOf(doc))) = 2

\* The content elements of container c whose text cannot be extracted.
FailingChildren(d, c) ==
    { j \in 1..Len(d) : /\ d[j].parent = c
                        /\ d[j].tag \notin HEADING_TAGS
                        /\ ~IsSectionContainer(d[j])
                        /\ RaisesValueError(d[j]) }

\* The generator is at such an element.
AtFailingElement ==
    /\ Iterating
    /\ Top.i <= Len(TopChildren)
    /\ TopChildren[Top.i] \in FailingChildren(doc, Top.node)

\* C22: when the text of one content element cannot be extracted,
\* iter_sphinx_sections skips that element alone.  The step on it gathers
\* nothing, yields nothing and does not fail; no run ends in ValueError; the
\* container's section is yielded all the same once its invocation returns,
\* with the texts of its other content elements in order.
C22_FailingElementSkipped ==
    /\ [][AtFailingElement =>
            /\ pc' = pc /\ err' = err /\ yielded' = yielded
            /\ Len(stack') = Len(stack)
            /\ stack'[Len(stack)] = [Top EXCEPT !.i = @ + 1]
            /\ \A n \in 1..(Len(stack) - 1) : stack'[n] = stack[n]]_vars
    /\ [](mode = "sphinx" =>
            /\ err # "ValueError"
            /\ \A c \in SectionContainers(doc) :
                  (FailingChildren(doc, c) # {} /\ BetweenInvocations
                     /\ \E inv \in Invocations : c \in Subtree(doc, inv)) =>
                  \E k \in 1..Len(yielded) :
                      /\ yielded[k].node = c
                      /\ yielded[k].section.content = Join(<<"NL", "NL">>, OwnTexts(doc, c)))

\* A finished page one of whose containers holds a comment and another
\* content element: its section was yielded with the other element's text.
C22_Witness ==
    /\ mode = "sphinx"
    /\ pc = "done"
    /\ \E k \in 1..Len(yielded) :
          /\ FailingChildren(doc, yielded[k].node) # {}
          /\ OwnContentChildren(doc, yielded[k].node) # <<>>
          /\ yielded[k].section.content # <<>>

\* The elements that carry a cell_output.
WithOutput(d) == { j \in 1..Len(d) : d[j].output # <<>> }

\* C23: dropping the cell_output sub-elements while a content element's text
\* is extracted leaves the parsed document as it was: no step of
\* iter_sphinx_sections changes the document tree, so after the run it has
\* the same elements in the same order, the cell_output included.
C23_DocumentUnchanged ==
    [][mode = "sphinx" => doc' = doc]_vars

\* A finished page: the text of an element with a cell_output was gathered
\* without the output, and the element of the document still carries it.
C23_Witness ==
    /\ mode = "sphinx"
    /\ pc = "done"
    /\ \E j \in WithOutput(doc) : \E k \in 1..Len(yielded) :
          /\ yielded[k].node = doc[j].parent
          /\ yielded[k].section.content =
                Join(<<"NL", "NL">>, OwnTexts(doc, doc[j].parent))
          /\ text_content(doc[j]) # text_content(drop_cell_outputs(doc[j]))

\* The nesting depth of container c below the root inv of an invocation.
RECURSIVE DepthBelow(_, _, _)
DepthBelow(d, c, inv) == IF c = inv \/ c = 0 THEN 1 ELSE 1 + DepthBelow(d, d[c].parent, inv)

\* The seed headers process_html passes: none for the root container, the
\* h1 heading for a sibling of the root.
SeedLen(inv) == IF inv = RootOf(doc) THEN 0 ELSE 1

\* The last heading child of container c before position before (in
\* document order), as it enters a heading path.
LastHeadingIn(d, c, before) ==
    LET hs == { j \in HeadingsOf(d, c) : j < before }
        j == CHOOSE j \in hs : \A n \in hs : n <= j
    IN  header_callback(text_content(d[j]))

\* C25: the header_level of every section iter_sphinx_sections yields is
\* the number of seed headers of the outermost call plus the nesting depth
\* of the section's container (1 for the root), whichever of h1-h6 the
\* headings use; the container's own heading in the path is the last
\* heading seen in it, and the heading of the enclosing container is the
\* last one seen before the nested container was entered.
C25_LevelIsDepth ==
    mode = "sphinx" =>
        \A k \in 1..Len(yielded) :
            LET y == yielded[k]
                level == header_level(y.section)
            IN  /\ level = SeedLen(y.inv) + DepthBelow(doc, y.node, y.inv)
                /\ y.section.headings[level] = LastHeadingIn(doc, y.node, Len(doc) + 1)
                /\ y.node # y.inv =>
                      y.section.headings[level - 1] = LastHeadingIn(doc, doc[y.node].parent, y.node)

\* A returned invocation on a root with a heading, a nested container and a
\* second heading: the nested section is under the first heading, the root's
\* own section carries the second, and the two headings differ in tag.
C25_Witness ==
    /\ mode = "sphinx"
    /\ pc = "h1"
    /\ \E k, n \in 1..Len(yielded) :
          /\ yielded[k].node = RootOf(doc)
          /\ doc[yielded[n].node].parent = RootOf(doc)
          /\ header_level(yielded[k].section) = 1
          /\ header_level(yielded[n].section) = 2
          /\ yielded[n].section.headings[1] # yielded[k].section.headings[1]
          /\ \E i, j \in HeadingsOf(doc, RootOf(doc)) : doc[i].tag # doc[j].tag

Min(a, b) == IF a <= b THEN a ELSE b

\* C26: in iter_nbcollection_sections the section an hN heading opens has
\* header_level min(previous level + 1, N): at most N, and at most one more
\* than the level of the section before it, so that a heading that skips
\* levels opens a section shallower than its tag.
C26_LevelAtMostTag ==
    [][AtHeading =>
         LET N == TagLevel(ContentElements[pos].tag)
             before == header_level(current_section)
             after == header_level(current_section')
         IN  /\ after = Min(before + 1, N)
             /\ after <= N
             /\ after <= before + 1]_vars

\* The walk has passed an h1 and then an h3: the section the h3 opened is of
\* level 2.
C26_Witness ==
    /\ Walking
    /\ pos = 3
    /\ ContentElements[1].tag = "h1"
    /\ ContentElements[2].tag = "h3"
    /\ header_level(current_section) = 2

\* Text t occurs in text c.
Occurs(t, c) == \E i \in 0..(Len(c) - Len(t)) : SubSeq(c, i + 1, i + Len(t)) = t

\* The content elements that come before the first heading element.
BeforeFirstHeading ==
    { j \in 1..Len(ContentElements) :
        /\ ContentElements[j].tag \notin HEADING_TAGS
        /\ \A n \in 1..j : ContentElements[n].tag \notin HEADING_TAGS }

\* C27: in iter_nbcollection_sections the text of the content elements
\* before the first heading is discarded.  The first heading step yields
\* nothing and opens a section with empty content, and the text of those
\* elements occurs in the content of no yielded section.
C27_LeadingContentDiscarded ==
    /\ [][(AtHeading /\ current_section.headings = <<>>) =>
            (out' = out /\ current_section'.content = <<>>)]_vars
    /\ [](mode = "flat" =>
            \A j \in BeforeFirstHeading : \A k \in 1..Len(out) :
                /\ ~Occurs(clean_content(text_content(ContentElements[j])), out[k].content)
                /\ ~Occurs(text_content(ContentElements[j]), out[k].content))

\* A finished walk over a page that starts with a content element and goes
\* on with a heading and its content: the one section holds the later text.
C27_Witness ==
    /\ mode = "flat"
    /\ pc = "done"
    /\ BeforeFirstHeading # {}
    /\ out # <<>>
    /\ out[1].content # <<>>

\* No heading is among the children of the running call's container that
\* the loop has passed.
NoHeadingSeen ==
    \A n \in 1..(Top.i - 1) : n <= Len(TopChildren) => doc[TopChildren[n]].tag \notin HEADING_TAGS

\* The running call is about to read current_headers: for a nested section
\* container, or for the yield after its loop.
ReadsCurrentHeaders ==
    /\ Iterating
    /\ \/ Top.i > Len(TopChildren)
       \/ /\ Top.i <= Len(TopChildren)
          /\ IsSectionContainer(doc[TopChildren[Top.i]])

\* C28: a section container without a heading among its children before its
\* first nested container, or without any heading, makes
\* iter_sphinx_sections fail: the step that would read the heading path
\* raises and yields nothing, and no yielded section belongs to a container
\* without a heading, or to one entered before its parent's first heading,
\* or has an empty heading path.
C28_HeadinglessContainerFails ==
    /\ [][(ReadsCurrentHeaders /\ NoHeadingSeen) =>
            (pc' = "error" /\ err' = "UnboundLocalError" /\ yielded' = yielded)]_vars
    /\ [](mode = "sphinx" =>
            \A k \in 1..Len(yielded) :
                /\ HeadingsOf(doc, yielded[k].node) # {}
                /\ yielded[k].section.headings # <<>>
                /\ yielded[k].node # yielded[k].inv =>
                      \E j \in HeadingsOf(doc, doc[yielded[k].node].parent) : j < yielded[k].node)

\* A run that failed on a container without a heading after another
\* container's section had been yielded.
C28_Witness ==
    /\ mode = "sphinx"
    /\ pc = "error"
    /\ err = "UnboundLocalError"
    /\ yielded # <<>>
    /\ \E c \in SectionContainers(doc) : HeadingsOf(doc, c) = {}

\* The objectIDs of a list.
IdsOf(ids) == { ids[k] : k \in 1..Len(ids) }

\* C29: expire_old_records never deletes a record whose index_epoch is the
\* epoch passed to it, nor one whose root_url is not the root URL passed to
\* it, and the list it returns is the list of objectIDs it asked the index
\* to delete: every step removes from the index only objects of the given
\* root_url and of another epoch, and what the returning step removes is
\* what the returned list names.
C29_OnlyOldRecordsDeleted ==
    [][mode = "expire" =>
         /\ \A o \in algolia_index.objects \ algolia_index'.objects :
               /\ o.index_epoch # expire_args.index_epoch
               /\ o.root_url = expire_args.root_url
         /\ algolia_index'.objects \subseteq algolia_index.objects
         /\ pc' = "returned" =>
               algolia_index.objects \ algolia_index'.objects =
                  { o \in algolia_index.objects : o.objectID \in IdsOf(old_object_ids') }]_vars

\* expire_old_records has returned on an index that holds a record of the
\* current epoch and a record of another root URL: both are still there.
C29_Witness ==
    /\ mode = "expire"
    /\ pc = "returned"
    /\ algolia_index.kind = "algolia"
    /\ \E o \in algolia_index.objects :
          o.root_url = expire_args.root_url /\ o.index_epoch = expire_args.index_epoch
    /\ \E o \in algolia_index.objects : o.root_url # expire_args.root_url

-----------------------------------------------------------------------------
(* workflows/indexjupyterbook.py: download_homepage *)

\* indexjupyterbook.py line 84, download.py lines 37-46: the index page is
\* downloaded, or DownloadError is raised outside the try block.
DownloadIndex ==
    /\ mode = "homepage"
    /\ pc = "start"
    /\ \E ok \in BOOLEAN :
          /\ fetches' = Append(fetches, [url |-> html_page.url, ok |-> ok])
          /\ pc' = IF ok THEN "loop" ELSE "error"
          /\ err' = IF ok THEN err ELSE "DownloadError"
    /\ UNCHANGED <<mode, homepage, sphinxVars, flatVars, redirectVars, detectVars, recordVars,
                   expireVars, fanoutVars, keywordVars, jbpageVars, cappedVars>>

\* Mutant: the second download is made outside the try block.
HomepageFollowUnguarded ==
    /\ mode = "homepage"
    /\ pc = "returned"
    /\ IF detected.isNone
       THEN /\ homepage' = [from |-> "index", url |-> html_page.url]
            /\ pc' = "done"
            /\ UNCHANGED <<fetches, err>>
       ELSE \E ok \in BOOLEAN :
               /\ fetches' = Append(fetches, [url |-> detected.url, ok |-> ok])
               /\ homepage' = IF ok THEN [from |-> "target", url |-> detected.url] ELSE homepage
               /\ pc' = IF ok THEN "done" ELSE "error"
               /\ err' = IF ok THEN err ELSE "DownloadError"
    /\ UNCHANGED <<mode, sphinxVars, flatVars, redirectVars, detectVars, recordVars,
                   expireVars, fanoutVars, keywordVars, jbpageVars, cappedVars>>

\* indexjupyterbook.py lines 86-96: with a redirect URL the target is
\* downloaded and returned; any exception of that download is swallowed and
\* the index page is returned.
HomepageFollow ==
    /\ mode = "homepage"
    /\ pc = "returned"
    /\ IF detected.isNone
       THEN /\ homepage' = [from |-> "index", url |-> html_page.url]
            /\ UNCHANGED fetches
       ELSE \E ok \in BOOLEAN :
               /\ fetches' = Append(fetches, [url |-> detected.url, ok |-> ok])
               /\ homepage' = IF ok THEN [from |-> "target", url |-> detected.url]
                              ELSE [from |-> "index", url |-> html_page.url]
    /\ pc' = "done"
    /\ UNCHANGED <<mode, err, sphinxVars, flatVars, redirectVars, detectVars, recordVars,
                   expireVars, fanoutVars, keywordVars, jbpageVars, cappedVars>>

InitHomepage ==
    /\ mode = "homepage"
    /\ pc = "start"
    /\ err = "none"
    /\ \E n \in 0..MaxMetas : \E ms \in [1..n -> MetaElements] : \E u \in SourceUrls :
          html_page = [url |-> u, metas |-> ms]
    /\ meta_pos = 1
    /\ detected = NotReturned
    /\ fetches = <<>>
    /\ homepage = NoHomepage
    /\ SphinxIdle
    /\ FlatIdle
    /\ RedirectIdle
    /\ RecordIdle
    /\ ExpireIdle
    /\ FanoutIdle
    /\ KeywordIdle
    /\ JbPageIdle
    /\ CappedIdle

NextHomepage == DownloadIndex \/ DetectRedirectStep \/ DetectRedirectNone \/ HomepageFollow

SpecHomepage == InitHomepage /\ [][NextHomepage]_vars

\* The refresh markers of the page whose content parses to a URL.
ParsedMarkers(page) ==
    { k \in RefreshMarkers(page) :
        /\ page.metas[k].content.has
        /\ parse_redirect_url(page.metas[k].content.value, page.url).ok }

IndexPage == [from |-> "index", url |-> html_page.url]

\* C24: download_homepage treats a failure to parse the redirect marker as
\* "no redirect".  Once the index page is downloaded it never raises; it
\* returns the index page when no refresh marker of the page parses, and
\* when the second download fails; it returns the page of the redirect
\* target only when a redirect was detected and that download succeeded.
C24_RedirectFailureIsNoRedirect ==
    mode = "homepage" =>
        /\ (err # "none") => (Len(fetches) = 1 /\ ~fetches[1].ok /\ homepage = NoHomepage)
        /\ pc = "done" =>
              /\ homepage.from \in {"index", "target"}
              /\ ParsedMarkers(html_page) = {} => (homepage = IndexPage /\ Len(fetches) = 1)
              /\ (Len(fetches) = 2 /\ ~fetches[2].ok) => homepage = IndexPage
              /\ homepage.from = "target" =>
                    /\ ~detected.isNone
                    /\ ParsedMarkers(html_page) # {}
                    /\ homepage.url = detected.url
                    /\ Len(fetches) = 2
                    /\ fetches[2] = [url |-> detected.url, ok |-> TRUE]

\* The only refresh marker of the page did not parse: the index page was
\* returned, and nothing was raised.
C24_Witness ==
    /\ mode = "homepage"
    /\ pc = "done"
    /\ err = "none"
    /\ Cardinality(RefreshMarkers(html_page)) = 1
    /\ \A k \in RefreshMarkers(html_page) : IsMalformedMarker(html_page.metas[k])
    /\ homepage = IndexPage

-----------------------------------------------------------------------------
(* algolia/records.py: AlgoliaRecord.export_capped_records_to_algolia *)

MaxContent == 4

MaxRest == 2

MaxSize == 5

\* The characters of a record's content: a letter, a full stop, a space.
ContentChars == {"a", ".", " "}

Contents == UNION { [1..n -> ContentChars] : n \in 0..MaxContent }

\* len(json.dumps(json_record).encode("utf-8")): the bytes of the content
\* and the bytes of the rest of the JSON object.
total_bytes(record) == record.rest + Len(record.content)

\* re.split(r"\. ", content)
RECURSIVE re_split(_)
re_split(c) ==
    LET at == { i \in 1..(Len(c) - 1) : c[i] = "." /\ c[i + 1] = " " }
    IN  IF at = {} THEN <<c>>
        ELSE LET i == CHOOSE i \in at : \A j \in at : i <= j
             IN  <<SubSeq(c, 1, i - 1)>> \o re_split(SubSeq(c, i + 2, Len(c)))

\* math.ceil(a / b)
ceil_div(a, b) == (a + b - 1) \div b

\* more_itertools.chunked(items, n): lists of n items, the last one shorter;
\* with n = 0 the first take() is the empty list, which ends the iteration.
RECURSIVE chunked(_, _)
chunked(items, n) ==
    IF n = 0 \/ items = <<>> THEN <<>>
    ELSE IF Len(items) <= n THEN <<items>>
    ELSE <<SubSeq(items, 1, n)>> \o chunked(SubSeq(items, n + 1, Len(items)), n)

\* str(i)
Decimal(i) == <<(<<"1", "2", "3", "4", "5", "6", "7", "8", "9">>)[i]>>

\* records.py lines 198-200: the chunks of the content to export
ContentParts(call) ==
    LET content_chunks == re_split(call.content)
        split_by == ceil_div(total_bytes(call), call.max_size)
        part_size == Len(content_chunks) \div split_by
    IN  chunked(content_chunks, part_size)

\* records.py lines 193-197: the whole record fits
CappedYieldWhole ==
    /\ mode = "capped"
    /\ pc = "call"
    /\ total_bytes(capped_call) < capped_call.max_size
    /\ capped_out' = <<[objectID |-> capped_call.objectID, content |-> capped_call.content]>>
    /\ pc' = "done"
    /\ UNCHANGED <<mode, err, capped_call, sphinxVars, flatVars, redirectVars, detectVars,
                   recordVars, expireVars, fanoutVars, keywordVars, jbpageVars, homepageVars>>

\* records.py lines 198-206: the next sub-record
CappedYieldPart ==
    /\ mode = "capped"
    /\ pc = "call"
    /\ total_bytes(capped_call) >= capped_call.max_size
    /\ Len(capped_out) < Len(ContentParts(capped_call))
    /\ LET i == Len(capped_out) + 1
           chunk == ContentParts(capped_call)[i]
       IN  capped_out' = Append(capped_out,
                                [objectID |-> capped_call.objectID \o <<"-">> \o Decimal(i),
                                 content |-> Join(<<".", " ">>, chunk)])
    /\ UNCHANGED <<mode, pc, err, capped_call, sphinxVars, flatVars, redirectVars, detectVars,
                   recordVars, expireVars, fanoutVars, keywordVars, jbpageVars, homepageVars>>

\* records.py line 201: the loop over the chunks is over
CappedReturn ==
    /\ mode = "capped"
    /\ pc = "call"
    /\ total_bytes(capped_call) >= capped_call.max_size
    /\ Len(capped_out) = Len(ContentParts(capped_call))
    /\ pc' = "done"
    /\ UNCHANGED <<mode, err, capped_call, capped_out, sphinxVars, flatVars, redirectVars,
                   detectVars, recordVars, expireVars, fanoutVars, keywordVars, jbpageVars,
                   homepageVars>>

InitCapped ==
    /\ mode = "capped"
    /\ pc = "call"
    /\ err = "none"
    /\ \E c \in Contents : \E r \in 1..MaxRest : \E m \in 1..MaxSize :
          capped_call = [objectID |-> <<"i", "d">>, content |-> c, rest |-> r, max_size |-> m]
    /\ capped_out = <<>>
    /\ SphinxIdle
    /\ FlatIdle
    /\ RedirectIdle
    /\ WorkflowIdleBut("capped")

NextCapped == CappedYieldWhole \/ CappedYieldPart \/ CappedReturn

SpecCapped == InitCapped /\ [][NextCapped]_vars

\* C30: export_capped_records_to_algolia loses no content.  For every
\* record and cap it yields at least one object; the contents of the objects
\* joined in order with ". " are the record's content; a single object
\* carries the record's objectID, and of several the i-th carries the
\* objectID with the suffix "-i".
C30_NoContentLost ==
    (mode = "capped" /\ pc = "done") =>
        /\ Len(capped_out) >= 1
        /\ Join(<<".", " ">>, [i \in 1..Len(capped_out) |-> capped_out[i].content])
              = capped_call.content
        /\ Len(capped_out) = 1 => capped_out[1].objectID = capped_call.objectID
        /\ Len(capped_out) > 1 =>
              \A i \in 1..Len(capped_out) :
                  capped_out[i].objectID = capped_call.objectID \o <<"-">> \o Decimal(i)

-----------------------------------------------------------------------------
(* Every entry point *)

Init == InitSphinx \/ InitFlat \/ InitSection \/ InitRedirect \/ InitDetect
           \/ InitRecords \/ InitExpire \/ InitFanout
           \/ InitKeywords \/ InitJbPage \/ InitHomepage \/ InitCapped

Next == NextSphinx \/ NextFlat \/ NextSection \/ NextRedirect \/ NextDetect
           \/ NextRecords \/ NextExpire \/ NextFanout
           \/ NextKeywords \/ NextJbPage \/ NextHomepage \/ NextCapped

Spec == Init /\ [][Next]_vars

=============================================================================
